---------------------------- MODULE Spec2Model ----------------------------
(***************************************************************************)
(* A model of rpds' HashTrieMap (src/map/hash_trie_map/mod.rs): a          *)
(* persistent hash array mapped trie whose nodes live behind reference     *)
(* counted pointers and are mutated copy-on-write.                         *)
(*                                                                         *)
(* The heap is explicit: a node is a cell [rc, node] at an address, a      *)
(* SharedPointer is an address, and SharedPointer::make_mut clones a cell  *)
(* whose count is above one.  A 64-bit hash is the set of the positions of *)
(* its one-bits, so that shifts and masks are computed exactly.            *)
(*                                                                         *)
(* Four programs use the map: Spec holds several handles and mutates,      *)
(* clones, derives and drops them; OwnerSpec mutates one map over more     *)
(* keys; CtorSpec only constructs, with any u8 as the degree; ThreadSpec   *)
(* runs two threads on clones of one version, a count operation a step.    *)
(***************************************************************************)
EXTENDS Integers, Sequences, FiniteSets, TLC

VARIABLES
    heap,    \* address -> [rc, node]: the nodes allocated behind SharedPointers
    maps,    \* handle -> HashTrieMap {root, size, degree} (or NoMap)
    abs,     \* ghost: handle -> (key -> Option value), the abstract finite map
    call,    \* the last constructor call: the degree asked for and its panic
    thr,     \* thread -> its own handle and where it is in its operation
    common   \* ghost: what the version the threads were given showed

vars == <<heap, maps, abs, call, thr, common>>

-----------------------------------------------------------------------------
(* Bounds of the model. *)

\* Number of map handles that may be alive at once.
MaxHandles == 2

\* Depth of recursion at which the call stack is taken to be exhausted.
StackLimit == 12

Handles == 1..MaxHandles

\* The keys, with the hash the hasher gives each (the set of its one-bits):
\* "a", "b" and "e" collide fully, "c" differs from them in the last bit only,
\* "d" differs from them in the first bit.  ("f", which the threads use,
\* differs from "a" in the first bit of the second level.)
AllKeys == {"a", "b", "c", "d", "e"}
\* The keys the program with several handles inserts and removes.
Keys == {"a", "b", "c"}
Values == {1, 2}

-----------------------------------------------------------------------------
(* Option<T>: None is the empty sequence, Some(x) the sequence <<x>>. *)

None == <<>>
Some(x) == <<x>>
IsSome(o) == o # <<>>
Unwrap(o) == o[1]

\* let x = value in F(x)
Bind(value, F(_)) == F(value)


-----------------------------------------------------------------------------
(* Hashing: node_utils.  HashValue is u64. *)

\* 8 * size_of::<HashValue>(): the number of bits of a hash.
HashBits == 64

\* 8 * size_of::<usize>() as u8, on a target with 64-bit pointers.
DEFAULT_DEGREE == 64

\* node_utils::hash with the map's hasher: deterministic, key -> u64.
KeyHash(key) ==
    CASE key = "a" -> {}
      [] key = "b" -> {}
      [] key = "c" -> {63}
      [] key = "d" -> {0}
      [] key = "e" -> {}
      [] key = "f" -> {6}

\* u8::is_power_of_two
is_power_of_two(x) == \E b \in 0..7 : x = 2^b

\* u8::trailing_zeros (8 for zero): the position of the lowest one-bit.
trailing_zeros(x) ==
    CASE x % 2 = 1 -> 0
      [] x % 4 = 2 -> 1
      [] x % 8 = 4 -> 2
      [] x % 16 = 8 -> 3
      [] x % 32 = 16 -> 4
      [] x % 64 = 32 -> 5
      [] x % 128 = 64 -> 6
      [] x % 256 = 128 -> 7
      [] OTHER -> 8

\* u8::count_ones
count_ones(x) == Cardinality({b \in 0..7 : (x \div (2^b)) % 2 = 1})

\* the number whose one-bits are at the positions in S, each lowered by shift
RECURSIVE BitsValue(_, _)
BitsValue(S, shift) ==
    IF S = {} THEN 0
    ELSE LET j == CHOOSE x \in S : TRUE IN
         2^(j - shift) + BitsValue(S \ {j}, shift)

\* (hash >> shift) & (2^bits - 1), for a hash given by its one-bits: bit j of
\* the result is bit shift+j of the hash (a u64 has no bit past the 63rd).
ShiftMask(hash, shift, bits) ==
    BitsValue({j \in hash : j >= shift /\ j < shift + bits /\ j < HashBits}, shift)

\* Mutant: the hash counts as exhausted one level later.
index_from_hash_one_more_level(hash, depth, degree) ==
    LET shift == depth * trailing_zeros(degree) IN
    IF shift < HashBits + trailing_zeros(degree)
    THEN Some(ShiftMask(hash, shift, trailing_zeros(degree)))
    ELSE None

\* node_utils::index_from_hash: the index of the array for the hash at `depth`,
\* None when the hash is exhausted.  The mask degree - 1 of a power of two
\* keeps the low trailing_zeros(degree) bits.  (shift is a u32 product; depth
\* stays far below the values at which it would wrap.)
index_from_hash(hash, depth, degree) ==
    LET shift == depth * trailing_zeros(degree) IN
    IF shift < HashBits
    THEN Some(ShiftMask(hash, shift, trailing_zeros(degree)))
    ELSE None

\* Mutant: the height is rounded down.
trie_max_height_floor(degree) ==
    LET bits_per_level == count_ones(degree - 1)
        hash_bits == HashBits
    IN  IF bits_per_level = 0 THEN [err |-> "attempt to divide by zero", v |-> 0]
        ELSE [err |-> "", v |-> hash_bits \div bits_per_level]

\* iter_utils::trie_max_height; the division panics when degree is 1.
trie_max_height(degree) ==
    LET bits_per_level == count_ones(degree - 1)
        hash_bits == HashBits
    IN  IF bits_per_level = 0 THEN [err |-> "attempt to divide by zero", v |-> 0]
        ELSE [err |-> "",
              v |-> (hash_bits \div bits_per_level)
                    + (IF hash_bits % bits_per_level > 0 THEN 1 ELSE 0)]

-----------------------------------------------------------------------------
(* Entries, buckets and nodes. *)

\* Mutant: the hash cached with the entry is not the hash of its key.
EntryWithHash_new_zero_hash(key, value) ==
    [key |-> key, value |-> value, key_hash |-> {}]

\* EntryWithHash::new: the entry and the hash of its key, computed once.
EntryWithHash_new(key, value) ==
    [key |-> key, value |-> value, key_hash |-> KeyHash(key)]

\* Mutant: only the hashes are compared.
matches_hash_only(e, key, key_hash) == e.key_hash = key_hash

\* EntryWithHash::matches
matches(e, key, key_hash) == e.key_hash = key_hash /\ e.key = key

NoBucket == [tag |-> "None", entries |-> <<>>]
Single(e) == [tag |-> "Single", entries |-> <<e>>]
Collision(es) == [tag |-> "Collision", entries |-> es]

Branch(subtrees) == [tag |-> "Branch", sub |-> subtrees, bucket |-> NoBucket]
Leaf(bucket) == [tag |-> "Leaf", sub |-> <<>>, bucket |-> bucket]

\* Node::new_empty_branch
new_empty_branch == Branch(<<>>)

\* SparseArrayUsize: the present indices with their children.
SubSet(sub, index, ptr) == (index :> ptr) @@ sub
SubRemove(sub, index) == [j \in (DOMAIN sub) \ {index} |-> sub[j]]
SubSize(sub) == Cardinality(DOMAIN sub)
SubMin(S) == CHOOSE i \in S : \A j \in S : i <= j
\* the children in ascending index order (the order of the dense array)
RECURSIVE SubSeqOf(_, _)
SubSeqOf(sub, S) ==
    IF S = {} THEN <<>>
    ELSE <<sub[SubMin(S)]>> \o SubSeqOf(sub, S \ {SubMin(S)})
SubPtrs(sub) == SubSeqOf(sub, DOMAIN sub)

-----------------------------------------------------------------------------
(* The heap behind SharedPointer<Node>: address -> [rc, node]. *)

\* The allocator: the lowest free address.
Alloc(m) ==
    LET free == (1..(Cardinality(DOMAIN m) + 1)) \ DOMAIN m IN
    CHOOSE i \in free : \A j \in free : i <= j

\* SharedPointer::new
SharedPointer_new(m, node) ==
    LET ptr == Alloc(m) IN
    [m |-> (ptr :> [rc |-> 1, node |-> node]) @@ m, ptr |-> ptr]

\* SharedPointer::clone: one more reference to the same cell.
SharedPointer_clone(m, ptr) == [m EXCEPT ![ptr].rc = @ + 1]

RECURSIVE IncAll(_, _)
IncAll(m, ptrs) ==
    IF ptrs = <<>> THEN m
    ELSE IncAll(SharedPointer_clone(m, Head(ptrs)), Tail(ptrs))

\* Dropping a SharedPointer: the count goes down, and the cell whose count
\* reaches zero is freed after dropping the pointers its node holds.
RECURSIVE SharedPointer_drop(_, _)
RECURSIVE DropAll(_, _)
SharedPointer_drop(m, ptr) ==
    IF m[ptr].rc > 1 THEN [m EXCEPT ![ptr].rc = @ - 1]
    ELSE DropAll([j \in (DOMAIN m) \ {ptr} |-> m[j]], SubPtrs(m[ptr].node.sub))
DropAll(m, ptrs) ==
    IF ptrs = <<>> THEN m
    ELSE DropAll(SharedPointer_drop(m, Head(ptrs)), Tail(ptrs))

\* Mutant: the clone of a Branch points to copies of its children.
RECURSIVE CopyChildren(_, _, _)
CopyChildren(m, node, todo) ==
    IF todo = {} THEN [m |-> m, node |-> node]
    ELSE Bind(SubMin(todo), LAMBDA i :
         Bind(SharedPointer_new(IncAll(m, SubPtrs(m[node.sub[i]].node.sub)),
                                m[node.sub[i]].node), LAMBDA n :
              CopyChildren(n.m, [node EXCEPT !.sub[i] = n.ptr], todo \ {i})))

Node_clone_copies_children(m, node) == CopyChildren(m, node, DOMAIN node.sub)

\* Clone for Node: the clone of a Branch holds clones of the child pointers
\* (the children themselves are shared); the entries of a Leaf are shared.
Node_clone(m, node) == [m |-> IncAll(m, SubPtrs(node.sub)), node |-> node]

\* Mutant: make_mut clones the node whether or not the pointer is the only
\* one to it.
SharedPointer_make_mut_always_clones(m, ptr) ==
    Bind(Node_clone(m, m[ptr].node), LAMBDA c :
    Bind(SharedPointer_new(c.m, c.node), LAMBDA n :
         [m |-> SharedPointer_drop(n.m, ptr), ptr |-> n.ptr]))

\* SharedPointer::make_mut: the cell itself when this pointer is the only one
\* to it, else a fresh cell holding a clone of the node, this pointer's
\* reference to the old cell being dropped.
SharedPointer_make_mut(m, ptr) ==
    IF m[ptr].rc = 1 THEN [m |-> m, ptr |-> ptr]
    ELSE Bind(Node_clone(m, m[ptr].node), LAMBDA c :
         Bind(SharedPointer_new(c.m, c.node), LAMBDA n :
              [m |-> SharedPointer_drop(n.m, ptr), ptr |-> n.ptr]))

-----------------------------------------------------------------------------
(* Bucket: the payload of a leaf.  The collision list is a persistent list, *)
(* a sequence here, its front first.                                         *)

\* bucket_utils::list_remove_first with the predicate |e| e.matches(key,
\* key_hash).  First loop: entries are dropped from the front into
\* before_needle until one matches.
RECURSIVE list_remove_first_scan(_, _, _, _)
list_remove_first_scan(remaining, before_needle, key, key_hash) ==
    IF remaining = <<>>
    THEN [remaining |-> remaining, before_needle |-> before_needle, removed |-> FALSE]
    ELSE LET e == Head(remaining) IN
         IF matches(e, key, key_hash)
         THEN [remaining |-> Tail(remaining), before_needle |-> before_needle,
               removed |-> TRUE]
         ELSE list_remove_first_scan(Tail(remaining), Append(before_needle, e),
                                     key, key_hash)

\* Second loop: before_needle is popped from its back onto the front.
RECURSIVE list_remove_first_restore(_, _)
list_remove_first_restore(new_entries, before_needle) ==
    IF before_needle = <<>> THEN new_entries
    ELSE list_remove_first_restore(
             <<before_needle[Len(before_needle)]>> \o new_entries,
             SubSeq(before_needle, 1, Len(before_needle) - 1))

\* Mutant: the entries popped before the needle are not put back.
list_remove_first_norestore(list, key, key_hash) ==
    Bind(list_remove_first_scan(list, <<>>, key, key_hash), LAMBDA s :
         [list |-> s.remaining, removed |-> s.removed])

list_remove_first(list, key, key_hash) ==
    Bind(list_remove_first_scan(list, <<>>, key, key_hash), LAMBDA s :
         [list |-> list_remove_first_restore(s.remaining, s.before_needle),
          removed |-> s.removed])

\* the first entry of a list that matches (entries.iter().find)
RECURSIVE list_find(_, _, _)
list_find(entries, key, key_hash) ==
    IF entries = <<>> THEN None
    ELSE IF matches(Head(entries), key, key_hash) THEN Some(Head(entries))
    ELSE list_find(Tail(entries), key, key_hash)

\* Bucket::get
Bucket_get(bucket, key, key_hash) ==
    IF bucket.tag = "Single"
    THEN IF matches(bucket.entries[1], key, key_hash)
         THEN Some(bucket.entries[1]) ELSE None
    ELSE list_find(bucket.entries, key, key_hash)

\* Bucket::contains_key
Bucket_contains_key(bucket, key, key_hash) == IsSome(Bucket_get(bucket, key, key_hash))

\* Mutant: replacing the entry of a Single is reported as a new key.
Bucket_insert_counts_update(bucket, entry) ==
    IF bucket.tag = "Single"
    THEN IF matches(bucket.entries[1], entry.key, entry.key_hash)
         THEN [bucket |-> Single(entry), ret |-> TRUE]
         ELSE [bucket |-> Collision(<<entry, bucket.entries[1]>>), ret |-> TRUE]
    ELSE Bind(list_remove_first(bucket.entries, entry.key, entry.key_hash),
              LAMBDA r : [bucket |-> Collision(<<entry>> \o r.list),
                          ret |-> ~r.removed])

\* Mutant: the new entry of a Collision is put at the back.
Bucket_insert_at_back(bucket, entry) ==
    IF bucket.tag = "Single"
    THEN IF matches(bucket.entries[1], entry.key, entry.key_hash)
         THEN [bucket |-> Single(entry), ret |-> FALSE]
         ELSE [bucket |-> Collision(<<bucket.entries[1], entry>>), ret |-> TRUE]
    ELSE Bind(list_remove_first(bucket.entries, entry.key, entry.key_hash),
              LAMBDA r : [bucket |-> Collision(r.list \o <<entry>>),
                          ret |-> ~r.removed])

\* Bucket::insert: the bucket after the insertion and whether the key is new.
Bucket_insert(bucket, entry) ==
    IF bucket.tag = "Single"
    THEN IF matches(bucket.entries[1], entry.key, entry.key_hash)
         THEN [bucket |-> Single(entry), ret |-> FALSE]
         ELSE [bucket |-> Collision(<<entry, bucket.entries[1]>>), ret |-> TRUE]
    ELSE Bind(list_remove_first(bucket.entries, entry.key, entry.key_hash),
              LAMBDA r : [bucket |-> Collision(<<entry>> \o r.list),
                          ret |-> ~r.removed])

\* Mutant: a Collision that is left one entry stays a Collision.
Bucket_remove_keeps_collision(bucket, key, key_hash) ==
    IF bucket.tag = "Single"
    THEN IF matches(bucket.entries[1], key, key_hash)
         THEN [bucket |-> None, ret |-> TRUE, err |-> ""]
         ELSE [bucket |-> Some(bucket), ret |-> FALSE, err |-> ""]
    ELSE Bind(list_remove_first(bucket.entries, key, key_hash), LAMBDA r :
         [bucket |-> Some(Collision(r.list)), ret |-> r.removed, err |-> ""])

\* Bucket::remove: the bucket left (None when it became empty) and whether the
\* key was present.
Bucket_remove(bucket, key, key_hash) ==
    IF bucket.tag = "Single"
    THEN IF matches(bucket.entries[1], key, key_hash)
         THEN [bucket |-> None, ret |-> TRUE, err |-> ""]
         ELSE [bucket |-> Some(bucket), ret |-> FALSE, err |-> ""]
    ELSE Bind(list_remove_first(bucket.entries, key, key_hash), LAMBDA r :
         CASE Len(r.list) = 0 ->
                [bucket |-> Some(Collision(r.list)), ret |-> r.removed,
                 err |-> "unreachable: impossible to have collision with a single or no entry"]
           [] Len(r.list) = 1 ->
                [bucket |-> Some(Single(r.list[1])), ret |-> r.removed, err |-> ""]
           [] OTHER ->
                [bucket |-> Some(Collision(r.list)), ret |-> r.removed, err |-> ""])

-----------------------------------------------------------------------------
(* Node: get / insert / compress / remove / is_empty.  `ptr` is the address *)
(* of the node that is `self`; a `&mut self` is a cell this caller owns     *)
(* alone.                                                                   *)

ExpectMsg == "hash cannot be exhausted if we are on a branch"

\* Node::get
RECURSIVE Node_get(_, _, _, _, _, _)
Node_get(m, ptr, key, key_hash, depth, degree) ==
    LET self == m[ptr].node IN
    IF self.tag = "Branch"
    THEN Bind(index_from_hash(key_hash, depth, degree), LAMBDA index :
         IF index = None THEN [v |-> None, err |-> ExpectMsg]
         ELSE IF Unwrap(index) \in DOMAIN self.sub
              THEN Node_get(m, self.sub[Unwrap(index)], key, key_hash, depth + 1, degree)
              ELSE [v |-> None, err |-> ""])
    ELSE [v |-> Bucket_get(self.bucket, key, key_hash), err |-> ""]

\* Node::insert: the heap after the insertion and whether the key is new.
\* A recursion deeper than StackLimit exhausts the call stack.
RECURSIVE Node_insert(_, _, _, _, _)
Node_insert(m, ptr, entry, depth, degree) ==
    LET self == m[ptr].node IN
    IF depth > StackLimit THEN [m |-> m, ret |-> FALSE, err |-> "stack overflow"]
    ELSE IF self.tag = "Branch"
    THEN Bind(index_from_hash(entry.key_hash, depth, degree), LAMBDA index :
         IF index = None THEN [m |-> m, ret |-> FALSE, err |-> ExpectMsg]
         ELSE IF Unwrap(index) \in DOMAIN self.sub
              THEN Bind(SharedPointer_make_mut(m, self.sub[Unwrap(index)]),
                        LAMBDA u :
                   Node_insert([u.m EXCEPT ![ptr].node.sub[Unwrap(index)] = u.ptr],
                               u.ptr, entry, depth + 1, degree))
              ELSE Bind(SharedPointer_new(m, Leaf(Single(entry))), LAMBDA n :
                   [m |-> [n.m EXCEPT ![ptr].node.sub =
                                          SubSet(self.sub, Unwrap(index), n.ptr)],
                    ret |-> TRUE, err |-> ""]))
    ELSE LET maximum_depth == index_from_hash(entry.key_hash, depth, degree) = None
             bucket_contains_key ==
                 Bucket_contains_key(self.bucket, entry.key, entry.key_hash)
         IN  IF maximum_depth \/ bucket_contains_key
             THEN Bind(Bucket_insert(self.bucket, entry), LAMBDA b :
                  [m |-> [m EXCEPT ![ptr].node = Leaf(b.bucket)],
                   ret |-> b.ret, err |-> ""])
             ELSE IF self.bucket.tag = "Collision"
             THEN [m |-> m, ret |-> FALSE,
                   err |-> "unreachable: hash is not exhausted, so there cannot be a collision here"]
             ELSE Bind(Node_insert([m EXCEPT ![ptr].node = new_empty_branch],
                                   ptr, self.bucket.entries[1], depth, degree),
                       LAMBDA r1 :
                  IF r1.err # "" THEN r1
                  ELSE Bind(Node_insert(r1.m, ptr, entry, depth, degree),
                            LAMBDA r2 :
                       [m |-> r2.m, ret |-> TRUE, err |-> r2.err]))

\* crate::utils::replace(dest, src): the node behind src, made unique, is
\* swapped with *dest, and src is dropped.
utils_replace(m, dest, src) ==
    Bind(SharedPointer_make_mut(m, src), LAMBDA u :
         SharedPointer_drop([u.m EXCEPT ![dest].node = u.m[u.ptr].node,
                                        ![u.ptr].node = u.m[dest].node],
                            u.ptr))

\* Mutant: compress leaves the node as it is.
Node_compress_never(m, ptr) == m

\* Mutant: compress lifts the only child whenever it is a Leaf.
Node_compress_any_leaf(m, ptr) ==
    LET self == m[ptr].node IN
    IF self.tag = "Branch" /\ SubSize(self.sub) = 1
    THEN LET subtree == self.sub[SubMin(DOMAIN self.sub)] IN
         IF m[subtree].node.tag = "Leaf"
         THEN utils_replace([m EXCEPT ![ptr].node.sub = <<>>], ptr, subtree)
         ELSE m
    ELSE m

\* Node::compress: a Branch whose only child is a Leaf(Single) becomes that
\* leaf.
Node_compress(m, ptr) ==
    LET self == m[ptr].node IN
    IF self.tag = "Branch" /\ SubSize(self.sub) = 1
    THEN LET subtree == self.sub[SubMin(DOMAIN self.sub)]
             compress == m[subtree].node.tag = "Leaf"
                         /\ m[subtree].node.bucket.tag = "Single"
         IN  IF compress
             THEN utils_replace([m EXCEPT ![ptr].node.sub = <<>>], ptr, subtree)
             ELSE m
    ELSE m

\* Mutant: no node is ever reported empty.
Node_is_empty_never(node) == [v |-> FALSE, err |-> ""]

\* Node::is_empty (with its debug assertion)
Node_is_empty(node) ==
    CASE node.tag = "Branch" -> [v |-> SubSize(node.sub) = 0, err |-> ""]
      [] node.bucket.tag = "Single" -> [v |-> FALSE, err |-> ""]
      [] OTHER -> [v |-> FALSE,
                   err |-> IF Len(node.bucket.entries) >= 2 THEN ""
                           ELSE "collisions must have at least two entries"]

\* Node::remove: the heap after the removal and whether the key was present.
RECURSIVE Node_remove(_, _, _, _, _, _)
Node_remove(m, ptr, key, key_hash, depth, degree) ==
    LET self == m[ptr].node IN
    IF self.tag = "Branch"
    THEN Bind(index_from_hash(key_hash, depth, degree), LAMBDA index :
         IF index = None THEN [m |-> m, ret |-> FALSE, err |-> ExpectMsg]
         ELSE IF Unwrap(index) \in DOMAIN self.sub
              THEN Bind(SharedPointer_make_mut(m, self.sub[Unwrap(index)]),
                        LAMBDA u :
                   Bind(Node_remove([u.m EXCEPT ![ptr].node.sub[Unwrap(index)] = u.ptr],
                                    u.ptr, key, key_hash, depth + 1, degree),
                        LAMBDA r :
                   Bind(Node_is_empty(r.m[u.ptr].node), LAMBDA e :
                        IF r.err # "" THEN r
                        ELSE IF e.err # "" THEN [m |-> r.m, ret |-> r.ret, err |-> e.err]
                        ELSE IF ~r.ret THEN r
                        ELSE IF ~e.v
                        THEN [m |-> Node_compress(r.m, ptr), ret |-> r.ret, err |-> ""]
                        ELSE [m |-> Node_compress(
                                      SharedPointer_drop(
                                          [r.m EXCEPT ![ptr].node.sub =
                                                        SubRemove(@, Unwrap(index))],
                                          u.ptr),
                                      ptr),
                              ret |-> r.ret, err |-> ""])))
              ELSE [m |-> m, ret |-> FALSE, err |-> ""])
    ELSE Bind(Bucket_remove(self.bucket, key, key_hash), LAMBDA b :
         IF b.bucket = None
         THEN [m |-> [m EXCEPT ![ptr].node = new_empty_branch],
               ret |-> b.ret, err |-> b.err]
         ELSE [m |-> [m EXCEPT ![ptr].node = Leaf(Unwrap(b.bucket))],
               ret |-> b.ret, err |-> b.err])

-----------------------------------------------------------------------------
(* HashTrieMap: the handle {root, size, degree} and its operations.  Each   *)
(* takes the heap and the handle and gives back what it changes.            *)

NoMap == [live |-> FALSE, root |-> 0, size |-> 0, degree |-> 0]

\* Mutant: a degree above the default is clamped to it.
new_with_degree_clamped(m, degree) ==
    IF ~is_power_of_two(degree)
    THEN [m |-> m, map |-> NoMap, err |-> "degree must be a power of two"]
    ELSE Bind(SharedPointer_new(m, new_empty_branch), LAMBDA n :
         [m |-> n.m,
          map |-> [live |-> TRUE, root |-> n.ptr, size |-> 0,
                   degree |-> IF degree <= DEFAULT_DEGREE THEN degree
                              ELSE DEFAULT_DEGREE],
          err |-> ""])

\* HashTrieMap::new_with_hasher_and_degree_and_ptr_kind (degree is a u8)
new_with_degree(m, degree) ==
    IF ~is_power_of_two(degree)
    THEN [m |-> m, map |-> NoMap, err |-> "degree must be a power of two"]
    ELSE IF ~(degree <= DEFAULT_DEGREE)
    THEN [m |-> m, map |-> NoMap, err |-> "degree is too big"]
    ELSE Bind(SharedPointer_new(m, new_empty_branch), LAMBDA n :
         [m |-> n.m,
          map |-> [live |-> TRUE, root |-> n.ptr, size |-> 0, degree |-> degree],
          err |-> ""])

\* HashTrieMap::get
get(m, map, key) ==
    Bind(Node_get(m, map.root, key, KeyHash(key), 0, map.degree), LAMBDA r :
         [v |-> IF r.v = None THEN None ELSE Some(Unwrap(r.v).value),
          err |-> r.err])

\* HashTrieMap::contains_key
contains_key(m, map, key) == IsSome(get(m, map, key).v)

\* HashTrieMap::size and is_empty
size(map) == map.size
is_empty(map) == size(map) = 0

\* Mutant: indexing a key that is absent gives a value instead of failing.
index_or_first_value(m, map, key) ==
    Bind(get(m, map, key), LAMBDA g :
         IF g.err # "" THEN g
         ELSE IF g.v = None THEN [v |-> Some(1), err |-> ""]
         ELSE g)

\* Index for HashTrieMap::index: self.get(key).expect("no entry found for key")
HashTrieMap_index(m, map, key) ==
    Bind(get(m, map, key), LAMBDA g :
         IF g.err # "" THEN g
         ELSE IF g.v = None THEN [v |-> None, err |-> "no entry found for key"]
         ELSE g)

\* Clone for HashTrieMap: the root pointer is cloned, the rest is copied.
HashTrieMap_clone(m, map) ==
    [m |-> SharedPointer_clone(m, map.root), map |-> map]

\* Mutant: the root is written through the pointer without make_mut.
insert_mut_inplace(m, map, key, value) ==
    Bind(Node_insert(m, map.root, EntryWithHash_new(key, value), 0, map.degree),
         LAMBDA r :
         [m |-> r.m,
          map |-> [map EXCEPT !.size = IF r.ret THEN @ + 1 ELSE @],
          err |-> r.err])

\* HashTrieMap::insert_mut
insert_mut(m, map, key, value) ==
    Bind(SharedPointer_make_mut(m, map.root), LAMBDA u :
    Bind(Node_insert(u.m, u.ptr, EntryWithHash_new(key, value), 0, map.degree),
         LAMBDA r :
         [m |-> r.m,
          map |-> [map EXCEPT !.root = u.ptr,
                              !.size = IF r.ret THEN @ + 1 ELSE @],
          err |-> r.err]))

\* Mutant: remove_mut leaves the size as it was.
remove_mut_size_kept(m, map, key) ==
    Bind(SharedPointer_make_mut(m, map.root), LAMBDA u :
    Bind(Node_remove(u.m, u.ptr, key, KeyHash(key), 0, map.degree), LAMBDA r :
         [m |-> r.m,
          map |-> [map EXCEPT !.root = u.ptr],
          ret |-> r.ret,
          err |-> r.err]))

\* HashTrieMap::remove_mut.  size is a usize: taking one from zero is an
\* overflow, which panics or wraps with the build; here it shows as -1.
remove_mut(m, map, key) ==
    Bind(SharedPointer_make_mut(m, map.root), LAMBDA u :
    Bind(Node_remove(u.m, u.ptr, key, KeyHash(key), 0, map.degree), LAMBDA r :
         [m |-> r.m,
          map |-> [map EXCEPT !.root = u.ptr,
                              !.size = IF r.ret THEN @ - 1 ELSE @],
          ret |-> r.ret,
          err |-> r.err]))

\* Mutant: the mutated clone is returned whether or not the key was there.
remove_returns_mutated(m, map, key) ==
    Bind(HashTrieMap_clone(m, map), LAMBDA c : remove_mut(c.m, c.map, key))

\* HashTrieMap::insert: the clone is mutated and returned.
insert(m, map, key, value) ==
    Bind(HashTrieMap_clone(m, map), LAMBDA c :
         insert_mut(c.m, c.map, key, value))

\* HashTrieMap::remove: the mutated clone when the key was there, else a
\* clone of self, the mutated clone being dropped.
remove(m, map, key) ==
    Bind(HashTrieMap_clone(m, map), LAMBDA c :
    Bind(remove_mut(c.m, c.map, key), LAMBDA r :
         IF r.ret \/ r.err # "" THEN r
         ELSE Bind(HashTrieMap_clone(r.m, map), LAMBDA c2 :
              [m |-> SharedPointer_drop(c2.m, r.map.root), map |-> c2.map,
               ret |-> FALSE, err |-> ""])))

-----------------------------------------------------------------------------
(* IterPtr: the stack of frames.  A frame is a cursor: the items it runs    *)
(* over and the position of the item peek() shows.                          *)

\* IterStackElement::new
IterStackElement_new(node) ==
    CASE node.tag = "Branch" ->
           [tag |-> "Branch", items |-> SubPtrs(node.sub), pos |-> 1]
      [] node.bucket.tag = "Single" ->
           [tag |-> "LeafSingle", items |-> node.bucket.entries, pos |-> 1]
      [] OTHER ->
           [tag |-> "LeafCollision", items |-> node.bucket.entries, pos |-> 1]

\* Peekable::peek
peek(frame) ==
    IF frame.pos <= Len(frame.items) THEN Some(frame.items[frame.pos]) ELSE None

\* IterStackElement::current_elem
IterStackElement_current_elem(frame) ==
    CASE frame.tag = "Branch" ->
           [v |-> None, err |-> "called current element of a branch"]
      [] frame.tag = "LeafSingle" -> [v |-> Some(frame.items[1]), err |-> ""]
      [] OTHER ->
           IF peek(frame) = None
           THEN [v |-> None, err |-> "called Option::unwrap on a None value"]
           ELSE [v |-> peek(frame), err |-> ""]

\* IterStackElement::advance: the frame after the step and whether it finished.
\* (Iterator::next on an exhausted cursor leaves it exhausted.)
IterStackElement_advance(frame) ==
    IF frame.tag = "LeafSingle" THEN [frame |-> frame, finished |-> TRUE]
    ELSE Bind([frame EXCEPT !.pos = IF @ <= Len(frame.items) THEN @ + 1 ELSE @],
              LAMBDA f : [frame |-> f, finished |-> peek(f) = None])

\* IterPtr::dig
RECURSIVE IterPtr_dig(_, _)
IterPtr_dig(m, stack) ==
    IF stack = <<>> THEN stack
    ELSE LET stack_top == stack[Len(stack)] IN
         IF stack_top.tag = "Branch" /\ peek(stack_top) # None
         THEN IterPtr_dig(m, Append(stack,
                  IterStackElement_new(m[Unwrap(peek(stack_top))].node)))
         ELSE stack

\* The capacity IterPtr::new creates the stack with:
\* Vec::with_capacity(iter_utils::trie_max_height(map.degree) + 1)
IterPtr_stack_capacity(map) == trie_max_height(map.degree).v + 1

\* IterPtr::new
IterPtr_new(m, map) ==
    Bind(trie_max_height(map.degree), LAMBDA h :
         IF h.err # "" THEN [stack |-> <<>>, size |-> 0, err |-> h.err]
         ELSE [stack |-> IterPtr_dig(m, IF size(map) > 0
                                        THEN <<IterStackElement_new(m[map.root].node)>>
                                        ELSE <<>>),
               size |-> size(map), err |-> ""])

\* Mutant: advance does not dig after moving the cursor of the top frame.
RECURSIVE IterPtr_advance_no_dig(_, _)
IterPtr_advance_no_dig(m, stack) ==
    IF stack = <<>> THEN stack
    ELSE Bind(IterStackElement_advance(stack[Len(stack)]), LAMBDA a :
         IF a.finished THEN IterPtr_advance_no_dig(m, SubSeq(stack, 1, Len(stack) - 1))
         ELSE Append(SubSeq(stack, 1, Len(stack) - 1), a.frame))

\* IterPtr::advance
RECURSIVE IterPtr_advance(_, _)
IterPtr_advance(m, stack) ==
    IF stack = <<>> THEN stack
    ELSE Bind(IterStackElement_advance(stack[Len(stack)]), LAMBDA a :
         IF a.finished THEN IterPtr_advance(m, SubSeq(stack, 1, Len(stack) - 1))
         ELSE IterPtr_dig(m, Append(SubSeq(stack, 1, Len(stack) - 1), a.frame)))

\* IterPtr::current
IterPtr_current(stack) ==
    IF stack = <<>> THEN [v |-> None, err |-> ""]
    ELSE IterStackElement_current_elem(stack[Len(stack)])

\* Mutant: next() takes one from the counter whether or not it yields.
IterPtr_next_always_decrements(m, it) ==
    Bind(IterPtr_current(it.stack), LAMBDA current :
    IF current.err # "" THEN [it |-> [it EXCEPT !.err = current.err], v |-> None]
    ELSE [it |-> [stack |-> IterPtr_advance(m, it.stack),
                  size |-> it.size - 1,
                  err |-> ""],
          v |-> current.v])

\* Iterator::next for IterPtr: the iterator after the call and what it
\* returned.  (size is a usize: see remove_mut.)
IterPtr_next(m, it) ==
    Bind(IterPtr_current(it.stack), LAMBDA current :
    IF current.err # "" THEN [it |-> [it EXCEPT !.err = current.err], v |-> None]
    ELSE [it |-> [stack |-> IterPtr_advance(m, it.stack),
                  size |-> IF current.v # None THEN it.size - 1 ELSE it.size,
                  err |-> ""],
          v |-> current.v])

\* The whole sequence a fresh iter() yields, by calling next() until it
\* returns None: the (key, value) pairs in the order yielded.
RECURSIVE IterDrain(_, _, _)
IterDrain(m, it, acc) ==
    Bind(IterPtr_next(m, it), LAMBDA n :
    IF n.it.err # "" THEN [seq |-> acc, err |-> n.it.err]
    ELSE IF n.v = None THEN [seq |-> acc, err |-> ""]
    ELSE IterDrain(m, n.it, Append(acc, <<Unwrap(n.v).key, Unwrap(n.v).value>>)))

\* Iterator::size_hint for IterPtr: (self.size, Some(self.size))
IterPtr_size_hint(it) == <<it.size, Some(it.size)>>

\* The iterator before and after each of n calls of next(): n + 1 states (a
\* call that panics ends the sequence).
RECURSIVE IterStates(_, _, _)
IterStates(m, it, n) ==
    IF n = 0 \/ it.err # "" THEN <<it>>
    ELSE Bind(IterPtr_next(m, it), LAMBDA nx :
         <<it>> \o IterStates(m, nx.it, n - 1))

\* What each of n calls of next() returns.
RECURSIVE IterYields(_, _, _)
IterYields(m, it, n) ==
    IF n = 0 \/ it.err # "" THEN <<>>
    ELSE Bind(IterPtr_next(m, it), LAMBDA nx :
         <<nx.v>> \o IterYields(m, nx.it, n - 1))

\* a stack that is empty, or has a leaf frame with an entry to show on top
\* and below it only Branch frames whose cursor shows a child
StackWellFormed(stack) ==
    \/ stack = <<>>
    \/ /\ stack[Len(stack)].tag \in {"LeafSingle", "LeafCollision"}
       /\ peek(stack[Len(stack)]) # None
       /\ \A j \in 1..(Len(stack) - 1) :
             stack[j].tag = "Branch" /\ peek(stack[j]) # None

iter(m, map) ==
    Bind(IterPtr_new(m, map), LAMBDA it :
    IF it.err # "" THEN [seq |-> <<>>, err |-> it.err]
    ELSE IterDrain(m, it, <<>>))

\* PartialEq for HashTrieMap: the sizes, then every entry of self looked up
\* in other (all() stops at the first entry that fails).
eq(m, self, other) ==
    IF size(self) # size(other) THEN [v |-> FALSE, err |-> ""]
    ELSE Bind(iter(m, self), LAMBDA i :
         IF i.err # "" THEN [v |-> FALSE, err |-> i.err]
         ELSE [v |-> \A j \in 1..Len(i.seq) :
                        \E o \in {get(m, other, i.seq[j][1]).v} :
                            o # None /\ Unwrap(o) = i.seq[j][2],
               err |-> ""])

-----------------------------------------------------------------------------
(* Addresses are observable only through pointer equality, so states are    *)
(* kept up to a renaming of addresses: after each operation the cells are   *)
(* renumbered in the order in which a depth-first walk from the handles'    *)
(* roots (children in ascending index) first meets them.                    *)

\* The walk: `order` lists the cells met so far, `idx` gives each its rank.
RECURSIVE WalkOrder(_, _, _, _)
WalkOrder(m, todo, order, idx) ==
    IF todo = <<>> THEN [order |-> order, idx |-> idx]
    ELSE IF Head(todo) \in DOMAIN idx THEN WalkOrder(m, Tail(todo), order, idx)
    ELSE WalkOrder(m, SubPtrs(m[Head(todo)].node.sub) \o Tail(todo),
                   Append(order, Head(todo)),
                   (Head(todo) :> (Len(order) + 1)) @@ idx)

RECURSIVE LiveRoots(_, _)
LiveRoots(ms, h) ==
    IF h > MaxHandles THEN <<>>
    ELSE (IF ms[h].live THEN <<ms[h].root>> ELSE <<>>) \o LiveRoots(ms, h + 1)

Renumber(m, ms) ==
    Bind(WalkOrder(m, LiveRoots(ms, 1), <<>>, <<>>), LAMBDA w :
    [m |-> [i \in 1..Len(w.order) |->
              [m[w.order[i]] EXCEPT !.node.sub = [j \in DOMAIN @ |-> w.idx[@[j]]]]],
     maps |-> [h \in Handles |->
                 IF ms[h].live THEN [ms[h] EXCEPT !.root = w.idx[@]] ELSE ms[h]]])

-----------------------------------------------------------------------------
(* The state machine: a program that holds up to MaxHandles maps and calls  *)
(* their operations.  A call that panics or exhausts the stack leaves no    *)
(* map behind to observe: the step changes nothing.                         *)

\* The degrees the maps of the model are built with: 1 (accepted by the
\* constructor) and the default 64 (6 bits a level: the last level has the 4
\* bits left of the 64).
MapDegrees == {1, 64}

\* degree is a u8
U8 == 0..255

EmptyAbs == [k \in AllKeys |-> None]

NoCall == [op |-> "none", degree |-> 0, err |-> ""]

NoThreads == <<>>
NoCommon == <<>>

Live(h) == maps[h].live

\* The state after an operation that left the heap m and the handles ms.
Becomes(m, ms) ==
    \E n \in {Renumber(m, ms)} : heap' = n.m /\ maps' = n.maps

\* let mut map1 = HashTrieMap::new_with_degree(degree)
Init ==
    \E degree \in MapDegrees :
        \E n \in {new_with_degree(<<>>, degree)} :
            /\ heap = n.m
            /\ maps = [h \in Handles |-> IF h = 1 THEN n.map ELSE NoMap]
            /\ abs = [h \in Handles |-> EmptyAbs]
            /\ call = NoCall
            /\ thr = NoThreads
            /\ common = NoCommon

\* m.insert_mut(key, value) on handle h
InsertMut(h, key, value) ==
    /\ Live(h)
    /\ \E r \in {insert_mut(heap, maps[h], key, value)} :
          IF r.err # "" THEN UNCHANGED vars
          ELSE /\ Becomes(r.m, [maps EXCEPT ![h] = r.map])
               /\ abs' = [abs EXCEPT ![h][key] = Some(value)]
               /\ UNCHANGED <<call, thr, common>>

\* m.remove_mut(key) on handle h
RemoveMut(h, key) ==
    /\ Live(h)
    /\ \E r \in {remove_mut(heap, maps[h], key)} :
          IF r.err # "" THEN UNCHANGED vars
          ELSE /\ Becomes(r.m, [maps EXCEPT ![h] = r.map])
               /\ abs' = [abs EXCEPT ![h][key] = None]
               /\ UNCHANGED <<call, thr, common>>

\* let h = src.clone()
Clone(src, h) ==
    /\ Live(src) /\ ~Live(h)
    /\ \E c \in {HashTrieMap_clone(heap, maps[src])} :
          /\ Becomes(c.m, [maps EXCEPT ![h] = c.map])
          /\ abs' = [abs EXCEPT ![h] = abs[src]]
          /\ UNCHANGED <<call, thr, common>>

\* let h = src.insert(key, value)
Insert(src, h, key, value) ==
    /\ Live(src) /\ ~Live(h)
    /\ \E r \in {insert(heap, maps[src], key, value)} :
          IF r.err # "" THEN UNCHANGED vars
          ELSE /\ Becomes(r.m, [maps EXCEPT ![h] = r.map])
               /\ abs' = [abs EXCEPT ![h] = [abs[src] EXCEPT ![key] = Some(value)]]
               /\ UNCHANGED <<call, thr, common>>

\* let h = src.remove(key)
Remove(src, h, key) ==
    /\ Live(src) /\ ~Live(h)
    /\ \E r \in {remove(heap, maps[src], key)} :
          IF r.err # "" THEN UNCHANGED vars
          ELSE /\ Becomes(r.m, [maps EXCEPT ![h] = r.map])
               /\ abs' = [abs EXCEPT ![h] = [abs[src] EXCEPT ![key] = None]]
               /\ UNCHANGED <<call, thr, common>>

\* drop(h): the handle goes out of scope and its root pointer is dropped.
Drop(h) ==
    /\ Live(h)
    /\ \E o \in Handles : o # h /\ Live(o)
    /\ Becomes(SharedPointer_drop(heap, maps[h].root), [maps EXCEPT ![h] = NoMap])
    /\ abs' = [abs EXCEPT ![h] = EmptyAbs]
    /\ UNCHANGED <<call, thr, common>>

\* The program with several handles: maps are mutated in place, cloned,
\* derived by the pure operations and dropped.
Next ==
    \/ \E h \in Handles, key \in Keys, value \in Values : InsertMut(h, key, value)
    \/ \E h \in Handles, key \in Keys : RemoveMut(h, key)
    \/ \E src \in Handles, h \in Handles : Clone(src, h)
    \/ \E src \in Handles, h \in Handles, key \in Keys, value \in Values :
          Insert(src, h, key, value)
    \/ \E src \in Handles, h \in Handles, key \in Keys : Remove(src, h, key)
    \/ \E h \in Handles : Drop(h)

Spec == Init /\ [][Next]_vars

\* The program with one map it alone owns, over all the keys.
OwnerNext ==
    \/ \E key \in AllKeys, value \in Values : InsertMut(1, key, value)
    \/ \E key \in AllKeys : RemoveMut(1, key)

OwnerSpec == Init /\ [][OwnerNext]_vars

\* The program that only constructs: map1 = HashTrieMap::new_with_degree(degree)
\* for any u8, the map of an earlier call being dropped.  A panic leaves map1
\* unbound.
CtorInit ==
    /\ heap = <<>>
    /\ maps = [h \in Handles |-> NoMap]
    /\ abs = [h \in Handles |-> EmptyAbs]
    /\ call = NoCall
    /\ thr = NoThreads
    /\ common = NoCommon

Construct(degree) ==
    \E r \in {new_with_degree(<<>>, degree)} :
        /\ call' = [op |-> "new", degree |-> degree, err |-> r.err]
        /\ Becomes(r.m, [maps EXCEPT ![1] = r.map])
        /\ UNCHANGED <<abs, thr, common>>

CtorNext == \E degree \in U8 : Construct(degree)

CtorSpec == CtorInit /\ [][CtorNext]_vars

-----------------------------------------------------------------------------
(* What a program observes of a map, and what the trie stores. *)

GetAll(m, map) == [k \in AllKeys |-> get(m, map, k)]

Observe(m, map) ==
    [get |-> GetAll(m, map), size |-> size(map), iter |-> iter(m, map)]

\* the (key, value) pairs get retrieves
Pairs(m, map) ==
    {<<k, Unwrap(get(m, map, k).v)>> : k \in {j \in AllKeys : IsSome(get(m, map, j).v)}}

\* the entries stored in the leaves below the nodes at ptrs
RECURSIVE NodeEntries(_, _)
NodeEntries(m, ptrs) ==
    IF ptrs = <<>> THEN <<>>
    ELSE (IF m[Head(ptrs)].node.tag = "Branch"
          THEN NodeEntries(m, SubPtrs(m[Head(ptrs)].node.sub))
          ELSE m[Head(ptrs)].node.bucket.entries)
         \o NodeEntries(m, Tail(ptrs))

StoredEntries(m, map) == NodeEntries(m, <<map.root>>)

StoredKeys(m, map) ==
    {StoredEntries(m, map)[i].key : i \in 1..Len(StoredEntries(m, map))}

\* the buckets of the leaves of a heap
Buckets(m) == {m[p].node.bucket : p \in {q \in DOMAIN m : m[q].node.tag = "Leaf"}}

CollisionOf(n) == \E b \in Buckets(heap) : b.tag = "Collision" /\ Len(b.entries) = n

\* a cell two pointers point to
SharedCell == \E p \in DOMAIN heap : heap[p].rc > 1

-----------------------------------------------------------------------------
(* HashTrieMapSync, the variant whose pointers count atomically, on two     *)
(* threads.  Each thread owns a clone of one common version and runs its    *)
(* insert_mut and remove_mut calls on it.  A step of a thread is one atomic *)
(* operation on a count, or work on cells that thread alone points to:      *)
(* SharedPointer::make_mut is the read of the count (check), then, when the *)
(* cell is shared, one increment per child the clone points to, the new     *)
(* cell written into the pointer, and the release of the old cell, one      *)
(* decrement a step (a cell whose count reaches zero drops its children).   *)

\* The nodes of the trie under a pointer: each with its depth and the child
\* indices that lead to it from the root.
RECURSIVE TrieNodes(_, _, _, _)
TrieNodes(m, ptr, depth, path) ==
    {[ptr |-> ptr, depth |-> depth, path |-> path]}
    \cup (IF m[ptr].node.tag = "Branch"
          THEN UNION {TrieNodes(m, m[ptr].node.sub[i], depth + 1, Append(path, i)) :
                          i \in DOMAIN m[ptr].node.sub}
          ELSE {})

\* the nodes of a map
MapNodes(m, map) == TrieNodes(m, map.root, 0, <<>>)

\* the radix digits of a hash at the levels 0 .. Len(path) - 1 are the path
OnPath(path, hash, degree) ==
    \A j \in 1..Len(path) : index_from_hash(hash, j - 1, degree) = Some(path[j])

\* every Leaf of a Collision bucket lies at a depth at which index_from_hash
\* reports the hash of its entries exhausted
CollisionsAtMaxDepth(m, map) ==
    \A n \in MapNodes(m, map) :
        (m[n.ptr].node.tag = "Leaf" /\ m[n.ptr].node.bucket.tag = "Collision") =>
            \A i \in 1..Len(m[n.ptr].node.bucket.entries) :
                index_from_hash(m[n.ptr].node.bucket.entries[i].key_hash,
                                n.depth, map.degree) = None

\* no node but the root is a Branch without children, and every Leaf holds a
\* bucket of at least one entry
NoEmptyNodeBelowRoot(m, map) ==
    \A n \in MapNodes(m, map) :
        /\ (n.depth > 0 /\ m[n.ptr].node.tag = "Branch") =>
              SubSize(m[n.ptr].node.sub) > 0
        /\ m[n.ptr].node.tag = "Leaf" =>
              /\ m[n.ptr].node.bucket.tag \in {"Single", "Collision"}
              /\ Len(m[n.ptr].node.bucket.entries) >= 1

\* every entry of every Leaf caches the hash of its key, and the child
\* indices that lead to the Leaf are the radix digits of that hash
EntriesOnTheirPath(m, map) ==
    \A n \in MapNodes(m, map) :
        m[n.ptr].node.tag = "Leaf" =>
            \A i \in 1..Len(m[n.ptr].node.bucket.entries) :
                \E e \in {m[n.ptr].node.bucket.entries[i]} :
                    /\ e.key_hash = KeyHash(e.key)
                    /\ OnPath(n.path, e.key_hash, map.degree)
                    /\ get(m, map, e.key) = [v |-> Some(e.value), err |-> ""]

\* the messages of the unreachable! of Bucket::remove and of the debug
\* assertion of Node::is_empty
CollisionPanics ==
    {"unreachable: impossible to have collision with a single or no entry",
     "collisions must have at least two entries"}

\* every Collision bucket holds two entries or more, of one cached hash and
\* of pairwise distinct keys
CollisionsWellFormed(m) ==
    \A b \in Buckets(m) : b.tag = "Collision" =>
        /\ Len(b.entries) >= 2
        /\ \A i \in 1..Len(b.entries), j \in 1..Len(b.entries) :
              /\ b.entries[i].key_hash = b.entries[j].key_hash
              /\ i # j => b.entries[i].key # b.entries[j].key

\* the degrees with log2(degree) >= 1 that the constructor accepts
BranchingDegrees == {2, 4, 8, 16, 32, 64}

\* ceil(64 / b) for b = log2(degree)
DepthBound(degree) ==
    LET b == CHOOSE x \in 1..7 : 2^x = degree IN
    (HashBits \div b) + (IF HashBits % b > 0 THEN 1 ELSE 0)

\* the entries of a hash, in the order of the list of the leaf that the
\* radix digits of the hash lead to; none when they lead to no leaf
LeafEntries(m, map, hash) ==
    LET S == {n \in MapNodes(m, map) :
                 m[n.ptr].node.tag = "Leaf" /\ OnPath(n.path, hash, map.degree)}
    IN  IF S = {} THEN <<>>
        ELSE SelectSeq(m[(CHOOSE n \in S : TRUE).ptr].node.bucket.entries,
                       LAMBDA e : e.key_hash = hash)

\* a list without the entries of a key, the others in their order
WithoutKey(entries, key) == SelectSeq(entries, LAMBDA e : e.key # key)

\* the root of a map is a Branch without children
RootIsEmptyBranch(m, map) ==
    m[map.root].node.tag = "Branch" /\ SubSize(m[map.root].node.sub) = 0

\* a Branch of one child, which is a Leaf of a Single bucket
Compressible(m, ptr) ==
    /\ m[ptr].node.tag = "Branch"
    /\ SubSize(m[ptr].node.sub) = 1
    /\ \E i \in DOMAIN m[ptr].node.sub :
          /\ m[m[ptr].node.sub[i]].node.tag = "Leaf"
          /\ m[m[ptr].node.sub[i]].node.bucket.tag = "Single"

\* the nodes of B that are not nodes of A: not the same cell under the same
\* child indices
NewNodes(mA, A, mB, B) == MapNodes(mB, B) \ MapNodes(mA, A)

\* the nodes of A off the path of a hash that are not nodes of B
LostNodes(mA, A, mB, B, hash) ==
    {n \in MapNodes(mA, A) \ MapNodes(mB, B) : ~OnPath(n.path, hash, A.degree)}

\* B = an operation on A for a key of this hash, as the sharing rule has it:
\* the new nodes of B lie on the path of the hash, at most one per level,
\* and every node of A off the path is a node of B, unchanged
SharesOffPath(mA, A, mB, B, hash) ==
    /\ \A n \in NewNodes(mA, A, mB, B) : OnPath(n.path, hash, A.degree)
    /\ \A n1 \in NewNodes(mA, A, mB, B), n2 \in NewNodes(mA, A, mB, B) :
          n1.depth = n2.depth => n1 = n2
    /\ LostNodes(mA, A, mB, B, hash) = {}
    /\ \A n \in MapNodes(mA, A) \cap MapNodes(mB, B) : mB[n.ptr].node = mA[n.ptr].node

\* a Leaf of a Single bucket that is off the path of a hash and whose parent
\* is on it
SiblingLeaf(m, n, hash, degree) ==
    /\ n.depth > 0
    /\ ~OnPath(n.path, hash, degree)
    /\ OnPath(SubSeq(n.path, 1, Len(n.path) - 1), hash, degree)
    /\ m[n.ptr].node.tag = "Leaf"
    /\ m[n.ptr].node.bucket.tag = "Single"

\* the sharing rule with its two exceptions: one new node of B may be a
\* sibling leaf holding the bucket of a leaf that A has on the path (the old
\* entry of a split), and one node of A off the path may be missing from B
\* when it is a sibling leaf whose node B has on the path (the leaf that
\* compress lifted)
SharesButSiblingLeaf(mA, A, mB, B, hash) ==
    /\ \A n \in NewNodes(mA, A, mB, B) :
          \/ OnPath(n.path, hash, A.degree)
          \/ /\ SiblingLeaf(mB, n, hash, A.degree)
             /\ \E o \in MapNodes(mA, A) :
                   /\ OnPath(o.path, hash, A.degree)
                   /\ mA[o.ptr].node = mB[n.ptr].node
    /\ Cardinality({n \in NewNodes(mA, A, mB, B) : ~OnPath(n.path, hash, A.degree)}) <= 1
    /\ \A n \in LostNodes(mA, A, mB, B, hash) :
          /\ SiblingLeaf(mA, n, hash, A.degree)
          /\ \E o \in MapNodes(mB, B) :
                /\ OnPath(o.path, hash, A.degree)
                /\ mB[o.ptr].node = mA[n.ptr].node
    /\ Cardinality(LostNodes(mA, A, mB, B, hash)) <= 1
    /\ \A n \in MapNodes(mA, A) \cap MapNodes(mB, B) : mB[n.ptr].node = mA[n.ptr].node

\* this handle's pointers are the only ones to the nodes on the path of a hash
PathOwned(m, map, hash) ==
    \A n \in MapNodes(m, map) :
        OnPath(n.path, hash, map.degree) => m[n.ptr].rc = 1

\* ... and to the Leaf(Single) children of the nodes on the path
TouchedOwned(m, map, hash) ==
    \A n \in MapNodes(m, map) :
        (OnPath(n.path, hash, map.degree) \/ SiblingLeaf(m, n, hash, map.degree))
            => m[n.ptr].rc = 1

\* B is A mutated in place, no node cloned: a node of B under the child
\* indices of a node of A is that node; a cell that was not there before
\* lies under child indices new to the map (it was created, as a Leaf); and
\* a node of A that is no node of B has been freed (its contents moved, not
\* copied)
InPlaceNoClone(mA, A, mB, B) ==
    /\ B.root = A.root
    /\ \A nB \in MapNodes(mB, B), nA \in MapNodes(mA, A) :
          nA.path = nB.path => nA.ptr = nB.ptr
    /\ \A nB \in MapNodes(mB, B) :
          nB.ptr \notin DOMAIN mA =>
              \A nA \in MapNodes(mA, A) : nA.path # nB.path
    /\ \A nA \in MapNodes(mA, A) :
          (\A nB \in MapNodes(mB, B) : nB.ptr # nA.ptr) =>
              nA.ptr \notin DOMAIN mB

Threads == {1, 2}

\* Number of calls a thread makes.
MaxThreadOps == 1

ThreadKeys == {"a", "d", "f"}

\* The values the threads insert.
ThreadValues == {2}

\* The common versions: built by inserting these keys in turn, each with the
\* value 1.
CommonVersions ==
    {<<>>, <<"a">>, <<"a", "f">>, <<"a", "d">>, <<"a", "f", "d">>}

Last(seq) == seq[Len(seq)]
Front(seq) == SubSeq(seq, 1, Len(seq) - 1)

RECURSIVE Build(_, _)
Build(r, keys) ==
    IF keys = <<>> THEN r
    ELSE Build(insert_mut(r.m, r.map, Head(keys), 1), Tail(keys))

RECURSIVE AbsOf(_)
AbsOf(keys) ==
    IF keys = <<>> THEN [k \in ThreadKeys |-> None]
    ELSE [AbsOf(Front(keys)) EXCEPT ![Last(keys)] = Some(1)]

NoOp == [kind |-> "none", key |-> "a", value |-> 0]

\* A thread between calls: `map` is its handle, `exp` (ghost) the contents its
\* own calls so far give the common version when applied one after another.
IdleThread(map, exp) ==
    [map |-> map, pc |-> "idle", op |-> NoOp, slot |-> "root", path |-> <<>>,
     i |-> 0, pending |-> <<>>, src |-> 0, ret |-> FALSE, err |-> "",
     done |-> 0, exp |-> exp]

\* The pointer make_mut is working on: the root of the handle, the child at
\* the index of the branch on top of the path, or the local src of replace.
Target(m, th) ==
    CASE th.slot = "root" -> th.map.root
      [] th.slot = "child" -> m[Last(th.path).ptr].node.sub[Last(th.path).index]
      [] OTHER -> th.src

\* Where the thread goes on once make_mut has returned.
AfterMakeMut(th) == IF th.slot = "src" THEN "swap" ELSE "visit"

TGetAll(m, map) == [k \in ThreadKeys |-> get(m, map, k)]

\* The main thread built a version and gave each thread a clone of it.
ThreadInit ==
    \E keys \in CommonVersions :
        \E b \in {Build(new_with_degree(<<>>, DEFAULT_DEGREE), keys)} :
        \E c1 \in {HashTrieMap_clone(b.m, b.map)} :
        \E c2 \in {HashTrieMap_clone(c1.m, b.map)} :
            /\ heap = c2.m
            /\ maps = [h \in Handles |-> IF h = 1 THEN b.map ELSE NoMap]
            /\ abs = [h \in Handles |-> EmptyAbs]
            /\ call = NoCall
            /\ thr = [t \in Threads |->
                         IdleThread(IF t = 1 THEN c1.map ELSE c2.map, AbsOf(keys))]
            /\ common = [obs |-> Observe(c2.m, b.map), get |-> TGetAll(c2.m, b.map)]

\* the thread calls map.insert_mut(key, value) or map.remove_mut(key): the key
\* is hashed and make_mut(&mut self.root) begins
T_Begin(t, kind, key, value) ==
    /\ thr[t].pc = "idle"
    /\ thr[t].done < MaxThreadOps
    /\ thr' = [thr EXCEPT ![t] = [@ EXCEPT !.op = [kind |-> kind, key |-> key,
                                                    value |-> value],
                                            !.slot = "root", !.path = <<>>,
                                            !.pc = "check"]]
    /\ UNCHANGED <<heap, maps, abs, call, common>>

\* Mutant: the node is written through the pointer without make_mut.
T_Check_skipped(t) ==
    /\ thr[t].pc = "check"
    /\ thr' = [thr EXCEPT ![t] = [@ EXCEPT !.pc = AfterMakeMut(thr[t]), !.i = 1]]
    /\ UNCHANGED <<heap, maps, abs, call, common>>

\* make_mut reads the count of the cell behind the pointer
T_Check(t) ==
    /\ thr[t].pc = "check"
    /\ thr' = [thr EXCEPT ![t] =
                  [@ EXCEPT !.pc = IF heap[Target(heap, thr[t])].rc = 1
                                   THEN AfterMakeMut(thr[t]) ELSE "inc",
                            !.i = 1]]
    /\ UNCHANGED <<heap, maps, abs, call, common>>

\* the clone of a shared node: one more reference to its next child, or, the
\* children done, the new cell is written into the pointer and the old cell
\* is left to be released
T_Clone(t) ==
    /\ thr[t].pc = "inc"
    /\ \E p \in {Target(heap, thr[t])} :
       \E kids \in {SubPtrs(heap[p].node.sub)} :
          IF thr[t].i <= Len(kids)
          THEN /\ heap' = SharedPointer_clone(heap, kids[thr[t].i])
               /\ thr' = [thr EXCEPT ![t].i = @ + 1]
          ELSE \E n \in {SharedPointer_new(heap, heap[p].node)} :
                  /\ heap' = IF thr[t].slot = "child"
                             THEN [n.m EXCEPT ![Last(thr[t].path).ptr].node.sub[
                                                   Last(thr[t].path).index] = n.ptr]
                             ELSE n.m
                  /\ thr' = [thr EXCEPT ![t] =
                               [@ EXCEPT !.map.root = IF thr[t].slot = "root"
                                                      THEN n.ptr ELSE @,
                                         !.src = IF thr[t].slot = "src"
                                                 THEN n.ptr ELSE @,
                                         !.pending = <<p>>,
                                         !.pc = "release"]]
    /\ UNCHANGED <<maps, abs, call, common>>

\* the release of a reference: the count goes down by one; the cell that
\* reaches zero is freed and its children are left to be released
T_Release(t) ==
    /\ thr[t].pc = "release"
    /\ IF thr[t].pending = <<>>
       THEN /\ thr' = [thr EXCEPT ![t].pc = AfterMakeMut(thr[t])]
            /\ UNCHANGED heap
       ELSE \E p \in {Head(thr[t].pending)} :
               IF heap[p].rc > 1
               THEN /\ heap' = [heap EXCEPT ![p].rc = @ - 1]
                    /\ thr' = [thr EXCEPT ![t].pending = Tail(@)]
               ELSE /\ heap' = [j \in (DOMAIN heap) \ {p} |-> heap[j]]
                    /\ thr' = [thr EXCEPT ![t].pending =
                                  SubPtrs(heap[p].node.sub) \o Tail(@)]
    /\ UNCHANGED <<maps, abs, call, common>>

\* Node::insert or Node::remove on the node behind the pointer, which is now
\* this thread's alone: on a Branch with a child at the index of the key,
\* make_mut of that child begins; else the rest of the call touches no cell
\* another thread points to and is one step
T_Visit(t) ==
    /\ thr[t].pc = "visit"
    /\ \E th \in {thr[t]} :
       \E p \in {Target(heap, th)} :
       \E index \in {index_from_hash(KeyHash(th.op.key), Len(th.path), th.map.degree)} :
          IF /\ heap[p].node.tag = "Branch"
             /\ index # None
             /\ Unwrap(index) \in DOMAIN heap[p].node.sub
          THEN /\ thr' = [thr EXCEPT ![t] =
                            [@ EXCEPT !.path = Append(@, [ptr |-> p,
                                                          index |-> Unwrap(index)]),
                                      !.slot = "child", !.pc = "check"]]
               /\ UNCHANGED heap
          ELSE \E r \in {IF th.op.kind = "insert"
                         THEN Node_insert(heap, p,
                                          EntryWithHash_new(th.op.key, th.op.value),
                                          Len(th.path), th.map.degree)
                         ELSE Node_remove(heap, p, th.op.key, KeyHash(th.op.key),
                                          Len(th.path), th.map.degree)} :
                  /\ heap' = r.m
                  /\ thr' = [thr EXCEPT ![t] =
                               [@ EXCEPT !.ret = r.ret, !.err = r.err,
                                         !.pc = IF th.op.kind = "insert"
                                                THEN "return" ELSE "unwind"]]
    /\ UNCHANGED <<maps, abs, call, common>>

\* Node::remove back in the branch on top of the path, after the call on the
\* child: an emptied child is removed, and compress pops an only child that
\* is a Leaf(Single) to replace the branch by it (replace begins with make_mut
\* of that pointer)
T_Unwind(t) ==
    /\ thr[t].pc = "unwind"
    /\ \E th \in {thr[t]} :
          IF th.path = <<>>
          THEN /\ thr' = [thr EXCEPT ![t].pc = "return"]
               /\ UNCHANGED heap
          ELSE \E self \in {Last(th.path).ptr} :
               \E child \in {heap[self].node.sub[Last(th.path).index]} :
               \E e \in {Node_is_empty(heap[child].node)} :
                  IF e.err # ""
                  THEN /\ thr' = [thr EXCEPT ![t] = [@ EXCEPT !.err = e.err,
                                                              !.pc = "return"]]
                       /\ UNCHANGED heap
                  ELSE IF ~th.ret
                  THEN /\ thr' = [thr EXCEPT ![t].path = Front(@)]
                       /\ UNCHANGED heap
                  ELSE \E m1 \in {IF e.v
                                  THEN SharedPointer_drop(
                                           [heap EXCEPT ![self].node.sub =
                                               SubRemove(@, Last(th.path).index)],
                                           child)
                                  ELSE heap} :
                       \E sub \in {m1[self].node.sub} :
                          IF /\ SubSize(sub) = 1
                             /\ m1[sub[SubMin(DOMAIN sub)]].node.tag = "Leaf"
                             /\ m1[sub[SubMin(DOMAIN sub)]].node.bucket.tag = "Single"
                          THEN /\ heap' = [m1 EXCEPT ![self].node.sub = <<>>]
                               /\ thr' = [thr EXCEPT ![t] =
                                            [@ EXCEPT !.src = sub[SubMin(DOMAIN sub)],
                                                      !.slot = "src",
                                                      !.pc = "check"]]
                          ELSE /\ heap' = m1
                               /\ thr' = [thr EXCEPT ![t].path = Front(@)]
    /\ UNCHANGED <<maps, abs, call, common>>

\* utils::replace after its make_mut: the node behind src is swapped with the
\* branch, and src is dropped
T_Swap(t) ==
    /\ thr[t].pc = "swap"
    /\ \E th \in {thr[t]} :
       \E self \in {Last(th.path).ptr} :
          /\ heap' = SharedPointer_drop(
                         [heap EXCEPT ![self].node = heap[th.src].node,
                                      ![th.src].node = heap[self].node],
                         th.src)
          /\ thr' = [thr EXCEPT ![t] = [@ EXCEPT !.path = Front(@), !.src = 0,
                                                 !.pc = "unwind"]]
    /\ UNCHANGED <<maps, abs, call, common>>

\* the call returns: insert_mut and remove_mut bring size up to date
T_Return(t) ==
    /\ thr[t].pc = "return"
    /\ \E th \in {thr[t]} :
          thr' = [thr EXCEPT ![t] =
                    [@ EXCEPT !.map.size =
                                  IF ~th.ret THEN @
                                  ELSE IF th.op.kind = "insert" THEN @ + 1 ELSE @ - 1,
                              !.exp = IF th.err # "" THEN @
                                      ELSE [@ EXCEPT ![th.op.key] =
                                              IF th.op.kind = "insert"
                                              THEN Some(th.op.value) ELSE None],
                              !.op = NoOp, !.slot = "root", !.path = <<>>,
                              !.i = 0, !.ret = FALSE,
                              !.done = @ + 1, !.pc = "idle"]]
    /\ UNCHANGED <<heap, maps, abs, call, common>>

\* the main thread drops its handle to the common version
DropCommon ==
    /\ Live(1)
    /\ heap' = SharedPointer_drop(heap, maps[1].root)
    /\ maps' = [maps EXCEPT ![1] = NoMap]
    /\ UNCHANGED <<abs, call, thr, common>>

ThreadNext ==
    \/ \E t \in Threads, key \in ThreadKeys, value \in ThreadValues :
          T_Begin(t, "insert", key, value)
    \/ \E t \in Threads, key \in ThreadKeys : T_Begin(t, "remove", key, 0)
    \/ \E t \in Threads : T_Check(t)
    \/ \E t \in Threads : T_Clone(t)
    \/ \E t \in Threads : T_Release(t)
    \/ \E t \in Threads : T_Visit(t)
    \/ \E t \in Threads : T_Unwind(t)
    \/ \E t \in Threads : T_Swap(t)
    \/ \E t \in Threads : T_Return(t)
    \/ DropCommon

ThreadSpec == ThreadInit /\ [][ThreadNext]_vars

-----------------------------------------------------------------------------
(* The claims. *)

\* C1: after any sequence of insert_mut and remove_mut on an initially empty
\* map, get(k) is the value of the latest insert_mut(k, v) not followed by a
\* successful remove_mut(k) and absent otherwise (the ghost abs), for keys that
\* share hash prefixes or collide fully too; contains_key(k) is true exactly
\* when get(k) is present.
C1_Refinement ==
    \A h \in Handles : Live(h) =>
        \A k \in AllKeys :
            \E g \in {get(heap, maps[h], k)} :
                /\ g.err = ""
                /\ g.v = abs[h][k]
                /\ contains_key(heap, maps[h], k) = IsSome(abs[h][k])

\* A default-degree map after an update of "a", with "a" and "b" colliding in
\* a bucket, "c" split from them at the last level and "e" absent.
C1_Witness ==
    /\ Live(1) /\ maps[1].degree = 64
    /\ abs[1]["a"] = Some(2) /\ abs[1]["b"] = Some(1) /\ abs[1]["c"] = Some(1)
    /\ abs[1]["d"] = Some(2) /\ abs[1]["e"] = None
    /\ CollisionOf(2)

\* C2: no insert_mut, remove_mut, insert or remove performed through a handle
\* b changes what another handle a shows: a.get(k) for every key, a.size()
\* and the sequence a.iter() yields are the same after the call as before.
C2_Persistence ==
    \A a \in Handles, b \in Handles : (a # b /\ Live(a) /\ Live(b)) =>
        \E before \in {Observe(heap, maps[a])} :
            \A k \in Keys :
                /\ \A v \in Values :
                      /\ \E r \in {insert_mut(heap, maps[b], k, v)} :
                            r.err = "" => Observe(r.m, maps[a]) = before
                      /\ \E r \in {insert(heap, maps[b], k, v)} :
                            r.err = "" => Observe(r.m, maps[a]) = before
                /\ \E r \in {remove_mut(heap, maps[b], k)} :
                      r.err = "" => Observe(r.m, maps[a]) = before
                /\ \E r \in {remove(heap, maps[b], k)} :
                      r.err = "" => Observe(r.m, maps[a]) = before

\* Two handles of default degree that hold different contents and share a
\* cell below their roots.
C2_Witness ==
    /\ Live(1) /\ Live(2) /\ maps[1].degree = 64
    /\ abs[1] # abs[2]
    /\ maps[1].root # maps[2].root
    /\ \E p \in DOMAIN heap : heap[p].rc > 1

\* C3: in every reachable state of every handle size() is the number of
\* distinct keys stored in the trie and is never below zero; insert_mut of a
\* key not present adds exactly 1 to it, insert_mut of a key present leaves
\* it and replaces the value.
C3_SizeCountsKeys ==
    \A h \in Handles : Live(h) =>
        \E stored \in {StoredEntries(heap, maps[h])} :
            /\ size(maps[h]) = Len(stored)
            /\ size(maps[h]) = Cardinality({stored[i].key : i \in 1..Len(stored)})
            /\ size(maps[h]) >= 0
            /\ \A k \in AllKeys, v \in Values :
                  \E r \in {insert_mut(heap, maps[h], k, v)} :
                      r.err = "" =>
                          /\ size(r.map) =
                                size(maps[h])
                                + (IF \E i \in 1..Len(stored) : stored[i].key = k
                                   THEN 0 ELSE 1)
                          /\ get(r.m, r.map, k).v = Some(v)

\* A default-degree map of three keys: a Collision of two and a key split
\* from them.
C3_Witness ==
    /\ Live(1) /\ maps[1].degree = 64 /\ size(maps[1]) = 3
    /\ CollisionOf(2)
    /\ abs[1]["c"] # None

\* C4: remove_mut(k) returns true exactly when k was present; then size goes
\* down by 1, get(k) becomes absent and every other key keeps its value; when
\* k is absent it returns false and size, every get and the iteration
\* sequence are unchanged.
C4_RemoveMut ==
    \A h \in Handles : Live(h) =>
        \E before \in {Observe(heap, maps[h])} :
            \A k \in AllKeys :
                \E r \in {remove_mut(heap, maps[h], k)} :
                    /\ r.err = ""
                    /\ r.ret = IsSome(before.get[k].v)
                    /\ IF r.ret
                       THEN /\ size(r.map) = before.size - 1
                            /\ get(r.m, r.map, k).v = None
                            /\ \A j \in AllKeys \ {k} :
                                  get(r.m, r.map, j) = before.get[j]
                       ELSE Observe(r.m, r.map) = before

\* A default-degree map that shares cells with another handle, holds "a" and
\* "c" and no longer holds "b", which the other handle still holds: "b" is
\* absent, has the hash of "a" and its path is shared.
C4_Witness ==
    /\ Live(1) /\ Live(2) /\ maps[1].degree = 64
    /\ abs[1]["a"] # None /\ abs[1]["c"] # None /\ abs[1]["b"] = None
    /\ abs[2]["b"] # None
    /\ SharedCell

\* C5: for every reachable map a fresh iter() yields exactly size() entries,
\* with pairwise distinct keys, whose pairs are the pairs get retrieves; on
\* an empty map the first next() returns none.
C5_IterComplete ==
    \A h \in Handles : Live(h) =>
        \E i \in {iter(heap, maps[h])} :
            /\ i.err = ""
            /\ Len(i.seq) = size(maps[h])
            /\ \A x \in 1..Len(i.seq), y \in 1..Len(i.seq) :
                  x # y => i.seq[x][1] # i.seq[y][1]
            /\ {i.seq[x] : x \in 1..Len(i.seq)} = Pairs(heap, maps[h])
            /\ size(maps[h]) = 0 =>
                  \E it \in {IterPtr_new(heap, maps[h])} :
                      it.err = "" /\ IterPtr_next(heap, it).v = None

\* C6: distinct keys of one hash coexist in a map: a key whose hash a stored
\* key has can be inserted, and then each is retrieved with its own value;
\* removing one of them leaves the others retrievable, and no bucket is left
\* a Collision of fewer than two entries.
C6_CollidingKeysCoexist ==
    \A h \in Handles : Live(h) =>
        \A k \in AllKeys :
            (\E j \in AllKeys \ {k} : KeyHash(j) = KeyHash(k) /\ IsSome(abs[h][j])) =>
                /\ \A v \in Values :
                      \E r \in {insert_mut(heap, maps[h], k, v)} :
                          /\ r.err = ""
                          /\ get(r.m, r.map, k).v = Some(v)
                          /\ \A j \in AllKeys \ {k} :
                                get(r.m, r.map, j).v = abs[h][j]
                /\ \E r \in {remove_mut(heap, maps[h], k)} :
                      /\ r.err = ""
                      /\ \A j \in AllKeys \ {k} :
                            get(r.m, r.map, j).v = abs[h][j]
                      /\ \A b \in Buckets(r.m) :
                            b.tag = "Collision" => Len(b.entries) >= 2

\* C7: two maps compare equal exactly when they hold the same set of
\* (key, value) pairs, whatever their shapes, the order of their collision
\* lists and the side that is self.
C7_EqIffSamePairs ==
    \A a \in Handles, b \in Handles : (Live(a) /\ Live(b)) =>
        \E e \in {eq(heap, maps[a], maps[b])} :
            /\ e.err = ""
            /\ e.v = (Pairs(heap, maps[a]) = Pairs(heap, maps[b]))

\* C8: construction panics, and produces no map, exactly when the degree is
\* not a power of two or is above 64; otherwise it returns an empty map (size
\* 0, the root an empty Branch) with exactly that degree.
C8_Constructor ==
    call.op = "new" =>
        /\ (call.err # "") =
              (~(\E b \in 0..7 : call.degree = 2^b) \/ call.degree > 64)
        /\ call.err # "" => ~Live(1)
        /\ call.err = "" =>
              /\ Live(1)
              /\ maps[1].degree = call.degree
              /\ size(maps[1]) = 0
              /\ heap[maps[1].root].node.tag = "Branch"
              /\ DOMAIN heap[maps[1].root].node.sub = {}

\* The constructor refused 128, a power of two above 64.
C8_Witness ==
    call.op = "new" /\ call.degree = 128 /\ call.err = "degree is too big"
    /\ ~Live(1)

\* C9: for every degree the constructor accepts every operation on the map is
\* total: get, insert_mut, remove_mut and the creation of an iterator return
\* without a panic and without exhausting the stack, for any key.
C9_Total ==
    \A h \in Handles : Live(h) =>
        /\ IterPtr_new(heap, maps[h]).err = ""
        /\ \A k \in AllKeys :
              /\ get(heap, maps[h], k).err = ""
              /\ remove_mut(heap, maps[h], k).err = ""
              /\ \A v \in Values : insert_mut(heap, maps[h], k, v).err = ""

\* C10: with atomically counted pointers, under every interleaving of two
\* threads that each apply insert_mut and remove_mut to their own clone of a
\* common version, no call fails, a thread between calls holds exactly the
\* contents its own calls give the common version when applied in sequence
\* (whatever the other thread is in the middle of), and a handle kept to the
\* common version shows what it showed when the threads were started.
C10_ThreadsIsolated ==
    /\ \A t \in Threads :
          /\ thr[t].err = ""
          /\ thr[t].pc = "idle" =>
                /\ \A k \in ThreadKeys :
                      get(heap, thr[t].map, k) = [v |-> thr[t].exp[k], err |-> ""]
                /\ size(thr[t].map) =
                      Cardinality({k \in ThreadKeys : IsSome(thr[t].exp[k])})
    /\ Live(1) =>
          /\ Observe(heap, maps[1]) = common.obs
          /\ TGetAll(heap, maps[1]) = common.get

\* Both threads have returned from their calls, which left them different
\* contents, the handle to the common version is still there, and a cell is
\* shared.
C10_Witness ==
    /\ \A t \in Threads : thr[t].pc = "idle" /\ thr[t].done = MaxThreadOps
    /\ thr[1].exp # thr[2].exp
    /\ thr[1].exp["a"] = Some(2) /\ thr[2].exp["f"] = None
    /\ Live(1) /\ common.get["f"].v = Some(1)
    /\ SharedCell

\* C11: remove of a key that is absent returns a handle whose root is the
\* very root of self and whose size is that of self; the path copied by the
\* attempted removal is released, so the heap differs from the one before
\* only by one more owner of that root, and self shows what it showed.
C11_RemoveAbsentShares ==
    \A h \in Handles : Live(h) =>
        \A k \in AllKeys : get(heap, maps[h], k).v = None =>
            \E r \in {remove(heap, maps[h], k)} :
                /\ r.err = ""
                /\ r.map.root = maps[h].root
                /\ size(r.map) = size(maps[h])
                /\ r.map = maps[h]
                /\ r.m = [heap EXCEPT ![maps[h].root].rc = @ + 1]
                /\ Observe(r.m, maps[h]) = Observe(heap, maps[h])

\* A default-degree map that holds "a" and "c" but not "b", whose path runs
\* through the leaf of "a" at the last level, with cells below its root
\* shared with another handle that holds "a" and "b".
C11_Witness ==
    /\ Live(1) /\ Live(2) /\ maps[1].degree = 64
    /\ abs[1]["a"] # None /\ abs[1]["c"] # None /\ abs[1]["b"] = None
    /\ abs[2]["b"] # None /\ abs[2]["a"] # None
    /\ maps[1].root # maps[2].root
    /\ SharedCell

\* C12: get and contains_key of a key that is absent do not fail: they return
\* none and false (they take the map by shared reference and return no new
\* heap); map[k] fails exactly when get(k) is none, and otherwise returns
\* the value get(k) returns.
C12_IndexFatalIffAbsent ==
    \A h \in Handles : Live(h) =>
        \A k \in AllKeys :
            \E g \in {get(heap, maps[h], k)}, i \in {HashTrieMap_index(heap, maps[h], k)} :
                /\ abs[h][k] = None =>
                      /\ g = [v |-> None, err |-> ""]
                      /\ contains_key(heap, maps[h], k) = FALSE
                /\ (i.err # "") = (g.v = None)
                /\ g.v # None => i = [v |-> g.v, err |-> ""]
                /\ g.v = None => i.err = "no entry found for key"

\* A default-degree map where "a" and "e" collide in a bucket, "b" has their
\* hash and is absent, and "d" is absent with a hash of its own.
C12_Witness ==
    /\ Live(1) /\ maps[1].degree = 64
    /\ abs[1]["a"] = Some(2) /\ abs[1]["e"] = Some(1)
    /\ abs[1]["b"] = None /\ abs[1]["d"] = None
    /\ CollisionOf(2)

\* C13: after any sequence of insert_mut and remove_mut every Branch other
\* than the root has at least two entries beneath it; and after a remove_mut
\* that removed a key no Branch on the path of that key is left with exactly
\* one child that is a Leaf of a Single bucket (compress has replaced each
\* such Branch by the leaf, up to the root).
C13_BranchHasTwoEntries ==
    \A h \in Handles : Live(h) =>
        /\ \A n \in MapNodes(heap, maps[h]) :
              (n.depth > 0 /\ heap[n.ptr].node.tag = "Branch") =>
                  Len(NodeEntries(heap, <<n.ptr>>)) >= 2
        /\ \A k \in AllKeys :
              \E r \in {remove_mut(heap, maps[h], k)} :
                  (r.err = "" /\ r.ret) =>
                      \A n \in MapNodes(r.m, r.map) :
                          /\ OnPath(n.path, KeyHash(k), maps[h].degree) =>
                                ~Compressible(r.m, n.ptr)
                          /\ (n.depth > 0 /\ r.m[n.ptr].node.tag = "Branch") =>
                                Len(NodeEntries(r.m, <<n.ptr>>)) >= 2

\* A default-degree map whose root is a Leaf: removals have compressed the
\* chain of Branches that split "a" from "c" all the way up.
C13_Witness ==
    /\ Live(1) /\ maps[1].degree = 64
    /\ heap[maps[1].root].node.tag = "Leaf"
    /\ abs[1]["a"] # None /\ abs[1]["c"] = None /\ abs[1]["b"] = None

\* C14: after any sequence of insert_mut and remove_mut a Leaf of a Collision
\* bucket lies only at the depth at which index_from_hash reports the hash
\* exhausted; a removal (with its compress calls) leaves that so, and no
\* insert_mut reaches the unreachable! of Node::insert for a Collision at a
\* depth where the hash is not exhausted.
C14_CollisionOnlyAtMaxDepth ==
    \A h \in Handles : Live(h) =>
        /\ CollisionsAtMaxDepth(heap, maps[h])
        /\ \A k \in AllKeys :
              /\ \E r \in {remove_mut(heap, maps[h], k)} :
                    r.err = "" => CollisionsAtMaxDepth(r.m, r.map)
              /\ \A v \in Values :
                    \E r \in {insert_mut(heap, maps[h], k, v)} :
                        /\ r.err # "unreachable: hash is not exhausted, so there cannot be a collision here"
                        /\ r.err = "" => CollisionsAtMaxDepth(r.m, r.map)

\* A default-degree map that holds only the three keys of one hash, in a
\* Collision under a chain of Branches of one child each.
C14_Witness ==
    /\ Live(1) /\ maps[1].degree = 64 /\ size(maps[1]) = 3
    /\ CollisionOf(3)
    /\ \E n \in MapNodes(heap, maps[1]) :
          /\ n.depth = 11
          /\ heap[n.ptr].node.bucket.tag = "Collision"

\* C15: after any sequence of insert_mut and remove_mut no node other than
\* the root is a Branch without children and no Leaf holds an empty bucket;
\* this is so when remove_mut returns, whatever key it was given.
C15_OnlyRootEmpty ==
    \A h \in Handles : Live(h) =>
        /\ NoEmptyNodeBelowRoot(heap, maps[h])
        /\ \A k \in AllKeys :
              \E r \in {remove_mut(heap, maps[h], k)} :
                  r.err = "" => NoEmptyNodeBelowRoot(r.m, r.map)

\* A default-degree map of "a" and "c", which part at the last level: the
\* removal of "c" empties its Leaf, which is dropped from its parent.
C15_Witness ==
    /\ Live(1) /\ maps[1].degree = 64 /\ size(maps[1]) = 2
    /\ abs[1]["a"] # None /\ abs[1]["c"] # None
    /\ \E n \in MapNodes(heap, maps[1]) : n.depth = 11
    /\ \E r \in {remove_mut(heap, maps[1], "c")} :
          r.ret /\ Len(StoredEntries(r.m, r.map)) = 1

\* C16: after any sequence of insert_mut and remove_mut (compressions that
\* move a leaf up included) every entry stored in a leaf below the child
\* indices i_0..i_{d-1} caches the hash of its key, the radix digit of that
\* hash at level j is i_j for every j < d, and get of its key finds it.
C16_LeafOnHashPath ==
    \A h \in Handles : Live(h) =>
        /\ EntriesOnTheirPath(heap, maps[h])
        /\ \A k \in AllKeys :
              \E r \in {remove_mut(heap, maps[h], k)} :
                  r.err = "" => EntriesOnTheirPath(r.m, r.map)

\* A default-degree map of "a", "c" and "d": "a" lies in a leaf at depth 11,
\* and the removal of "c" moves it up to depth 1 under child index 0.
C16_Witness ==
    /\ Live(1) /\ maps[1].degree = 64
    /\ abs[1]["a"] # None /\ abs[1]["c"] # None /\ abs[1]["d"] # None
    /\ \E n \in MapNodes(heap, maps[1]) :
          n.depth = 11 /\ heap[n.ptr].node.bucket.entries[1].key = "a"
    /\ \E r \in {remove_mut(heap, maps[1], "c")} :
          \E n \in MapNodes(r.m, r.map) :
              /\ n.path = <<0>>
              /\ r.m[n.ptr].node.tag = "Leaf"
              /\ r.m[n.ptr].node.bucket.entries[1].key = "a"

\* C17: in every reachable state every Collision bucket holds at least two
\* entries, all of the same cached hash and of pairwise distinct keys; no
\* remove_mut or insert_mut fires the unreachable! of Bucket::remove for a
\* Collision left without entries or the debug assertion of Node::is_empty,
\* and each leaves the Collision buckets so.
C17_CollisionWellFormed ==
    /\ CollisionsWellFormed(heap)
    /\ \A h \in Handles : Live(h) =>
          \A k \in AllKeys :
              /\ \E r \in {remove_mut(heap, maps[h], k)} :
                    /\ r.err \notin CollisionPanics
                    /\ r.err = "" => CollisionsWellFormed(r.m)
              /\ \A v \in Values :
                    \E r \in {insert_mut(heap, maps[h], k, v)} :
                        /\ r.err \notin CollisionPanics
                        /\ r.err = "" => CollisionsWellFormed(r.m)

\* A default-degree map with a Collision of three next to "c": the removal
\* of "b", the middle one or not, leaves a Collision of two.
C17_Witness ==
    /\ Live(1) /\ maps[1].degree = 64
    /\ CollisionOf(3) /\ abs[1]["c"] # None
    /\ \E r \in {remove_mut(heap, maps[1], "b")} :
          /\ r.ret
          /\ \E b \in Buckets(r.m) : b.tag = "Collision" /\ Len(b.entries) = 2

\* C18: for a degree with b = log2(degree) >= 1 the hash is exhausted exactly
\* from depth ceil(64 / b) on; in every reachable state of a map of such a
\* degree every node lies at depth <= ceil(64 / b) and every Branch at depth
\* < ceil(64 / b); and no get, insert_mut or remove_mut panics with "hash
\* cannot be exhausted if we are on a branch".
C18_DepthBounded ==
    /\ \A degree \in BranchingDegrees, depth \in 0..(HashBits + 1) :
          \A hash \in {KeyHash(k) : k \in AllKeys} :
              (index_from_hash(hash, depth, degree) = None)
                  = (depth >= DepthBound(degree))
    /\ \A h \in Handles : (Live(h) /\ maps[h].degree \in BranchingDegrees) =>
          /\ \A n \in MapNodes(heap, maps[h]) :
                /\ n.depth <= DepthBound(maps[h].degree)
                /\ heap[n.ptr].node.tag = "Branch" =>
                      n.depth < DepthBound(maps[h].degree)
          /\ \A k \in AllKeys :
                /\ get(heap, maps[h], k).err # ExpectMsg
                /\ remove_mut(heap, maps[h], k).err # ExpectMsg
                /\ \A v \in Values :
                      \E r \in {insert_mut(heap, maps[h], k, v)} :
                          /\ r.err # ExpectMsg
                          /\ r.err = "" =>
                                \A n \in MapNodes(r.m, r.map) :
                                    /\ n.depth <= DepthBound(maps[h].degree)
                                    /\ r.m[n.ptr].node.tag = "Branch" =>
                                          n.depth < DepthBound(maps[h].degree)

\* A default-degree map with two leaves at depth 11 = ceil(64 / 6), one of
\* them a Collision, under a Branch at depth 10, and a leaf at depth 1.
C18_Witness ==
    /\ Live(1) /\ maps[1].degree = 64 /\ DepthBound(64) = 11
    /\ abs[1]["d"] # None
    /\ \E n1 \in MapNodes(heap, maps[1]), n2 \in MapNodes(heap, maps[1]) :
          /\ n1.depth = 11 /\ n2.depth = 11 /\ n1 # n2
          /\ heap[n1.ptr].node.bucket.tag = "Collision"
    /\ \E n \in MapNodes(heap, maps[1]) :
          n.depth = 10 /\ heap[n.ptr].node.tag = "Branch"

\* C19: the entry most recently inserted or replaced is first in its bucket:
\* after insert_mut(k, v) the leaf of the hash of k holds the new entry
\* followed by the former entries of that hash other than that of k, in
\* their former order ([new, old] for a Single of another key); after
\* remove_mut(k) it holds the former entries other than that of k in their
\* former order.  (get and iter take the map by shared reference.)
C19_CollisionOrder ==
    \A h \in Handles : Live(h) =>
        \A k \in AllKeys :
            \E old \in {LeafEntries(heap, maps[h], KeyHash(k))} :
                /\ \E r \in {remove_mut(heap, maps[h], k)} :
                      r.err = "" =>
                          LeafEntries(r.m, r.map, KeyHash(k)) = WithoutKey(old, k)
                /\ \A v \in Values :
                      \E r \in {insert_mut(heap, maps[h], k, v)} :
                          r.err = "" =>
                              LeafEntries(r.m, r.map, KeyHash(k))
                                  = <<EntryWithHash_new(k, v)>> \o WithoutKey(old, k)

\* A default-degree map with a Collision of three in which "b" is neither
\* first nor last: replacing it moves it to the front, removing it leaves the
\* two others in their order.
C19_Witness ==
    /\ Live(1) /\ maps[1].degree = 64
    /\ \E old \in {LeafEntries(heap, maps[1], KeyHash("b"))} :
          /\ Len(old) = 3 /\ old[2].key = "b"
          /\ \E r \in {insert_mut(heap, maps[1], "b", 2)} :
                LeafEntries(r.m, r.map, KeyHash("b"))
                    = <<EntryWithHash_new("b", 2), old[1], old[3]>>
          /\ \E r \in {remove_mut(heap, maps[1], "b")} :
                LeafEntries(r.m, r.map, KeyHash("b")) = <<old[1], old[3]>>

\* C20: a fresh iter() emits the entries depth first, the present children of
\* each Branch in ascending child index and the entries of a Collision leaf
\* front to back, each entry once; a second fresh iterator over the same
\* handle emits the same sequence.
C20_IterOrder ==
    \A h \in Handles : Live(h) =>
        \E stored \in {StoredEntries(heap, maps[h])} :
            \E i \in {iter(heap, maps[h])}, second \in {iter(heap, maps[h])} :
                /\ i.err = ""
                /\ i.seq = [x \in 1..Len(stored) |->
                               <<stored[x].key, stored[x].value>>]
                /\ second = i

\* C21: at every point of an iteration (from a created iterator on, through
\* size() + 2 calls of next()) the size hint has lower = upper bound = the
\* number of entries that the later calls of next() yield: it starts at
\* size(), is 0 exactly when the stack is empty, never goes below 0, and once
\* next() has returned none every later next() returns none.
C21_SizeHintExact ==
    \A h \in Handles : Live(h) =>
        \E new \in {IterPtr_new(heap, maps[h])} :
            new.err = "" =>
                \E states \in {IterStates(heap, new, size(maps[h]) + 2)},
                   yields \in {IterYields(heap, new, size(maps[h]) + 2)} :
                    /\ Len(yields) = size(maps[h]) + 2
                    /\ Len(states) = Len(yields) + 1
                    /\ IterPtr_size_hint(states[1]) = <<size(maps[h]), Some(size(maps[h]))>>
                    /\ \A j \in 1..Len(states) :
                          /\ states[j].err = ""
                          /\ IterPtr_size_hint(states[j])[2]
                                = Some(IterPtr_size_hint(states[j])[1])
                          /\ IterPtr_size_hint(states[j])[1] =
                                Cardinality({i \in j..Len(yields) : yields[i] # None})
                          /\ IterPtr_size_hint(states[j])[1] >= 0
                          /\ (IterPtr_size_hint(states[j])[1] = 0)
                                = (states[j].stack = <<>>)
                    /\ \A j \in 1..Len(yields) : yields[j] = None =>
                          \A i \in j..Len(yields) :
                              yields[i] = None /\ states[i + 1].size = 0

\* A default-degree map of four entries, two of them in a Collision: half way
\* the iterator is inside the Collision with a hint of 2 or 3.
C21_Witness ==
    /\ Live(1) /\ maps[1].degree = 64 /\ size(maps[1]) = 4
    /\ CollisionOf(2)
    /\ \E states \in {IterStates(heap, IterPtr_new(heap, maps[1]), 6)} :
          /\ Len(states) = 7
          /\ \E j \in 1..7 :
                /\ states[j].size \in {2, 3}
                /\ states[j].stack # <<>>
                /\ states[j].stack[Len(states[j].stack)].tag = "LeafCollision"
                /\ states[j].stack[Len(states[j].stack)].pos = 2
          /\ states[5].size = 0 /\ states[7].size = 0

\* C22: after IterPtr::new and after every next() (size() + 2 of them) the
\* stack is empty or has a leaf frame on top (LeafSingle, or LeafCollision
\* with an entry to peek) and only Branch frames with a cursor that is not
\* exhausted below it; current() then neither calls current_elem on a Branch
\* frame nor unwraps an empty peek().
C22_LeafOnTop ==
    \A h \in Handles : Live(h) =>
        \E new \in {IterPtr_new(heap, maps[h])} :
            new.err = "" =>
                \E states \in {IterStates(heap, new, size(maps[h]) + 2)} :
                    /\ Len(states) = size(maps[h]) + 3
                    /\ \A j \in 1..Len(states) :
                          /\ states[j].err = ""
                          /\ StackWellFormed(states[j].stack)
                          /\ IterPtr_current(states[j].stack).err = ""

\* A default-degree map whose first leaf is a Collision at depth 11 and whose
\* last is a leaf at depth 1: the fresh iterator holds eleven Branch frames
\* under the Collision frame, and later holds the root frame under a
\* LeafSingle frame.
C22_Witness ==
    /\ Live(1) /\ maps[1].degree = 64 /\ abs[1]["d"] # None
    /\ \E states \in {IterStates(heap, IterPtr_new(heap, maps[1]), size(maps[1]))} :
          /\ Len(states[1].stack) = 12
          /\ states[1].stack[12].tag = "LeafCollision"
          /\ states[2].stack[12].pos = 2
          /\ \E j \in 1..Len(states) :
                /\ Len(states[j].stack) = 2
                /\ states[j].stack[1].pos = 2
                /\ states[j].stack[2].tag = "LeafSingle"

\* C23: in every reachable state of every handle size() is 0 exactly when
\* the root is an empty Branch, and is_empty() says so; this is so after
\* every remove_mut too (the removal of the last entry leaves an empty
\* Branch as root, also when the root was a Leaf), and a created iterator
\* never holds a frame of an empty Branch.
C23_EmptyIffRootEmpty ==
    \A h \in Handles : Live(h) =>
        /\ (size(maps[h]) = 0) = RootIsEmptyBranch(heap, maps[h])
        /\ is_empty(maps[h]) = RootIsEmptyBranch(heap, maps[h])
        /\ \A k \in AllKeys :
              \E r \in {remove_mut(heap, maps[h], k)} :
                  r.err = "" =>
                      (size(r.map) = 0) = RootIsEmptyBranch(r.m, r.map)
        /\ \E new \in {IterPtr_new(heap, maps[h])} :
              new.err = "" =>
                  \A j \in 1..Len(new.stack) :
                      new.stack[j].tag = "Branch" => new.stack[j].items # <<>>

\* A default-degree map of one entry whose root removals have compressed to
\* a Leaf: the removal of that entry leaves an empty Branch as root and size 0.
C23_Witness ==
    /\ Live(1) /\ maps[1].degree = 64 /\ size(maps[1]) = 1
    /\ heap[maps[1].root].node.tag = "Leaf"
    /\ abs[1]["c"] # None
    /\ \E r \in {remove_mut(heap, maps[1], "c")} :
          r.ret /\ size(r.map) = 0 /\ RootIsEmptyBranch(r.m, r.map)

\* C24 as stated: when B = A.insert(k, v) or B = A.remove(k), the nodes of B
\* that are not nodes of A lie on the path of the hash of k, at most one per
\* level, and every subtree of A off that path is shared by identity with B.
C24_SharesOffPath ==
    \A a \in Handles : Live(a) =>
        \A k \in AllKeys :
            /\ \A v \in Values :
                  \E r \in {insert(heap, maps[a], k, v)} :
                      r.err = "" =>
                          SharesOffPath(heap, maps[a], r.m, r.map, KeyHash(k))
            /\ \E r \in {remove(heap, maps[a], k)} :
                  r.err = "" =>
                      SharesOffPath(heap, maps[a], r.m, r.map, KeyHash(k))

\* C24 amended: when B = A.insert(k, v) or B = A.remove(k), the nodes of B
\* that are not nodes of A lie on the path of the hash of k, but for at most
\* one Leaf beside the path that holds the entry of the leaf a split
\* replaced; and every node of A off that path is a node of B, unchanged,
\* but for at most one Leaf beside the path that compress lifted into it.
C24_SharesButSiblingLeaf ==
    \A a \in Handles : Live(a) =>
        \A k \in AllKeys :
            /\ \A v \in Values :
                  \E r \in {insert(heap, maps[a], k, v)} :
                      r.err = "" =>
                          SharesButSiblingLeaf(heap, maps[a], r.m, r.map, KeyHash(k))
            /\ \E r \in {remove(heap, maps[a], k)} :
                  r.err = "" =>
                      SharesButSiblingLeaf(heap, maps[a], r.m, r.map, KeyHash(k))

\* A default-degree map A of "a" and "d", two leaves under the root:
\* A.insert("c", 1) splits the leaf of "a" and has a new leaf for "a" beside
\* the path of "c"; A.remove("d") lifts the leaf of "a" into the root, and
\* that leaf of A is no node of the result.
C24_Witness ==
    /\ Live(1) /\ maps[1].degree = 64 /\ size(maps[1]) = 2
    /\ abs[1]["a"] # None /\ abs[1]["d"] # None
    /\ \E r \in {insert(heap, maps[1], "c", 1)} :
          /\ r.err = ""
          /\ \E n \in NewNodes(heap, maps[1], r.m, r.map) :
                SiblingLeaf(r.m, n, KeyHash("c"), 64)
          /\ \E n \in MapNodes(r.m, r.map) :
                n.path = <<1>> /\ n \in MapNodes(heap, maps[1])
    /\ \E r \in {remove(heap, maps[1], "d")} :
          /\ r.ret
          /\ Cardinality(LostNodes(heap, maps[1], r.m, r.map, KeyHash("d"))) = 1
          /\ r.m[r.map.root].node.tag = "Leaf"

\* C25 as stated: when the handle's pointers are the only ones to every node
\* on the path of the hash of k, insert_mut and remove_mut of k mutate in
\* place and clone no node.
C25_OwnedPathInPlace ==
    \A h \in Handles : Live(h) =>
        \A k \in AllKeys : PathOwned(heap, maps[h], KeyHash(k)) =>
            /\ \A v \in Values :
                  \E r \in {insert_mut(heap, maps[h], k, v)} :
                      r.err = "" => InPlaceNoClone(heap, maps[h], r.m, r.map)
            /\ \E r \in {remove_mut(heap, maps[h], k)} :
                  r.err = "" => InPlaceNoClone(heap, maps[h], r.m, r.map)

\* C25 amended: when the handle's pointers are the only ones to every node
\* on the path of the hash of k and to the Leaf(Single) children of those
\* nodes (the leaf that compress may lift), insert_mut and remove_mut of k
\* mutate in place and clone no node; so it is for every call on a handle
\* that shares no cell.
C25_OwnedTouchedInPlace ==
    \A h \in Handles : Live(h) =>
        \A k \in AllKeys : TouchedOwned(heap, maps[h], KeyHash(k)) =>
            /\ \A v \in Values :
                  \E r \in {insert_mut(heap, maps[h], k, v)} :
                      r.err = "" => InPlaceNoClone(heap, maps[h], r.m, r.map)
            /\ \E r \in {remove_mut(heap, maps[h], k)} :
                  r.err = "" => InPlaceNoClone(heap, maps[h], r.m, r.map)

\* Two default-degree maps that share the Collision leaf of "a" and "b"; one
\* of them alone points to the nodes on the path of "c", which it holds and
\* removes in place.
C25_Witness ==
    /\ Live(1) /\ Live(2) /\ SharedCell
    /\ \E h \in Handles :
          /\ maps[h].degree = 64 /\ size(maps[h]) = 3
          /\ TouchedOwned(heap, maps[h], KeyHash("c"))
          /\ \E r \in {remove_mut(heap, maps[h], "c")} :
                r.ret /\ InPlaceNoClone(heap, maps[h], r.m, r.map)


\* C26 (as stated): at every point of an iteration (from a created iterator
\* on, through size() + 2 calls of next()) the stack holds at most
\* ceil(64 / log2(degree)) frames.
C26_StackWithinHeight ==
    \A h \in Handles : Live(h) =>
        \E new \in {IterPtr_new(heap, maps[h])} :
            new.err = "" =>
                \A j \in 1..(size(maps[h]) + 3) :
                    Len(IterStates(heap, new, size(maps[h]) + 2)[j].stack)
                        <= DepthBound(maps[h].degree)

\* C26 (amended): at every point of an iteration the stack holds at most
\* ceil(64 / log2(degree)) + 1 frames, which is the capacity the stack is
\* created with: one frame for the root and one for each level below it.
C26_StackWithinCapacity ==
    \A h \in Handles : Live(h) =>
        \E new \in {IterPtr_new(heap, maps[h])} :
            new.err = "" =>
                /\ IterPtr_stack_capacity(maps[h]) = DepthBound(maps[h].degree) + 1
                /\ \E states \in {IterStates(heap, new, size(maps[h]) + 2)} :
                      /\ Len(states) = size(maps[h]) + 3
                      /\ \A j \in 1..Len(states) :
                            Len(states[j].stack) <= IterPtr_stack_capacity(maps[h])

\* A default-degree map with two leaves at depth 11: the iterator holds as
\* many frames as its capacity, one more than the maximum height, at its
\* creation and again after a next().
C26_Witness ==
    /\ Live(1) /\ maps[1].degree = 64
    /\ abs[1]["a"] # None /\ abs[1]["c"] # None
    /\ \E states \in {IterStates(heap, IterPtr_new(heap, maps[1]), size(maps[1]))} :
          /\ Len(states[1].stack) = IterPtr_stack_capacity(maps[1])
          /\ Len(states[1].stack) = DepthBound(64) + 1
          /\ \E j \in 2..Len(states) :
                /\ Len(states[j].stack) = IterPtr_stack_capacity(maps[1])
                /\ states[j].stack[11].pos > 1

-----------------------------------------------------------------------------
(* The program that calls node_utils::index_from_hash once, with any hash of
   IndexHashes, any depth up to MaxIndexDepth and any degree of a map that
   the constructor returns. *)

\* Largest depth index_from_hash is called with (the u32 product of the
\* depth and the bits per level stays below 2^32).
MaxIndexDepth == 65

\* The hashes: every combination of the first and last bits of the first,
\* second and last 6-bit digit.
IndexHashes == SUBSET {0, 5, 6, 62, 63}

IndexDepths == 0..MaxIndexDepth

\* the degrees of the maps the constructor returns
AcceptedDegrees == {degree \in U8 : new_with_degree(<<>>, degree).err = ""}

IndexInit ==
    /\ heap = <<>>
    /\ maps = [h \in Handles |-> NoMap]
    /\ abs = [h \in Handles |-> EmptyAbs]
    /\ call = NoCall
    /\ thr = NoThreads
    /\ common = NoCommon

IndexFromHash(hash, depth, degree) ==
    /\ call = NoCall
    /\ call' = [op |-> "index_from_hash", hash |-> hash, depth |-> depth,
                degree |-> degree, r |-> index_from_hash(hash, depth, degree)]
    /\ UNCHANGED <<heap, maps, abs, thr, common>>

IndexNext ==
    \E hash \in IndexHashes, depth \in IndexDepths, degree \in AcceptedDegrees :
        IndexFromHash(hash, depth, degree)

IndexSpec == IndexInit /\ [][IndexNext]_vars

\* b with 2^b = degree
Log2(degree) == CHOOSE b \in 0..7 : 2^b = degree

\* the levels at which a hash has a digit: those with depth * b < 64, which
\* for b >= 1 are the levels 0 .. ceil(64 / b) - 1
DigitLevels(degree) ==
    {depth \in IndexDepths : depth * Log2(degree) < HashBits}

\* C27: for the hash, depth and degree of a call of index_from_hash, with
\* b = log2(degree): the result is exhausted exactly when depth * b >= 64;
\* otherwise it is below the degree and its bit j (j < b) is bit
\* depth * b + j of the hash, 0 past bit 63; and every other hash differs
\* from the hash in the digit of some level (the digits of all levels
\* determine the hash).
C27_IndexFromHash ==
    call.op = "index_from_hash" =>
        \E b \in {Log2(call.degree)} :
            /\ (call.r = None) = (call.depth * b >= HashBits)
            /\ call.r # None =>
                  /\ Unwrap(call.r) \in 0..(call.degree - 1)
                  /\ \A j \in 0..(b - 1) :
                        ((Unwrap(call.r) \div (2^j)) % 2 = 1)
                            = (/\ call.depth * b + j \in call.hash
                               /\ call.depth * b + j < HashBits)
            /\ b >= 1 => DigitLevels(call.degree) = 0..(DepthBound(call.degree) - 1)
            /\ \A other \in IndexHashes \ {call.hash} :
                  \E depth \in DigitLevels(call.degree) :
                      index_from_hash(other, depth, call.degree)
                          # index_from_hash(call.hash, depth, call.degree)

=============================================================================
